---- MODULE Spec2Model ----
(***************************************************************************)
(* The chess rule engine of the games portal (ChessLogic.ts) and the game  *)
(* state it is driven from.  Boards are 8x8 grids board[row][col]; row 0   *)
(* is black's back rank, row 7 white's.  Optional JavaScript fields are    *)
(* modelled by the strings "undefined", "false", "true" (and the names of  *)
(* their other values), so that an unset flag differs from a false one.    *)
(***************************************************************************)
EXTENDS Integers, Sequences, FiniteSets, TLC

VARIABLES
  board,        \* the game's current board (gameState.board)
  currentTurn,  \* the colour to move (gameState.currentTurn)
  result,       \* the MoveResult of the last makeMove call
  input,        \* the board handed to that call, as it was before the call
  inputAfter,   \* the contents of that same board object after the call
  shared,       \* squares of result.newBoard sharing an object with the input
  ply,          \* makeMove calls made so far
  script,       \* how many of them followed the scripted line
  line,         \* which of the further lines is being played (0: none)
  played,       \* how many calls followed that line
  noted,        \* the move last handed to moveToAlgebraic
  notation,     \* the string it returned, as the sequence of its characters
  probe,        \* the last isSquareUnderAttack query and its answers
  status,       \* the game's status (gameState.status)
  stored,       \* the game document in the store: board map, currentTurn, status
  queried       \* the last query made on the board and the copy it worked on

vars == <<board, currentTurn, result, input, inputAfter, shared, ply, script,
          line, played, noted, notation, probe, status, stored, queried>>

-----------------------------------------------------------------------------
(* Data model (Chess.ts)                                                   *)

Idx == 0..7

Squares == Idx \X Idx

\* An empty square (null).
Null == [type |-> "null", color |-> "null", hasMoved |-> "null"]

ChessPiece(t, c, m) == [type |-> t, color |-> c, hasMoved |-> m]

\* JavaScript truthiness of an optional flag.
Truthy(x) == x \notin {"undefined", "false", "null"}

OnBoard(r, c) == r >= 0 /\ r < 8 /\ c >= 0 /\ c < 8

Opponent(color) == IF color = "white" THEN "black" ELSE "white"

ChessMove(fr, fc, tr, tc, cap, castle, promo) ==
  [from |-> [row |-> fr, col |-> fc], to |-> [row |-> tr, col |-> tc],
   isCapture |-> cap, isCastle |-> castle, isEnPassant |-> "undefined",
   promotion |-> promo, isCheck |-> "undefined", isCheckmate |-> "undefined"]

\* board with square (r, c) replaced by p.
Put(b, r, c, p) == [b EXCEPT ![r][c] = p]

\* A sequence of sequences flattened in order.
RECURSIVE Flatten(_)
Flatten(ss) == IF ss = <<>> THEN <<>> ELSE Head(ss) \o Flatten(Tail(ss))

-----------------------------------------------------------------------------
(* Attack and check detection                                              *)

knightOffsets ==
  << <<-2, -1>>, <<-2, 1>>, <<-1, -2>>, <<-1, 2>>,
     <<1, -2>>, <<1, 2>>, <<2, -1>>, <<2, 1>> >>

directions ==
  << <<-1, -1>>, <<-1, 0>>, <<-1, 1>>, <<0, -1>>,
     <<0, 1>>, <<1, -1>>, <<1, 0>>, <<1, 1>> >>

\* The row offset isSquareUnderAttack subtracts from the target row to find
\* the attacking pawns of byColor.
pawnDirection(byColor) == IF byColor = "white" THEN 1 ELSE -1

pawnAttacks(b, row, col, byColor) ==
  LET pr == row - pawnDirection(byColor) IN
  /\ pr >= 0 /\ pr < 8
  /\ \/ /\ col - 1 >= 0
        /\ b[pr][col - 1].type = "pawn" /\ b[pr][col - 1].color = byColor
     \/ /\ col + 1 < 8
        /\ b[pr][col + 1].type = "pawn" /\ b[pr][col + 1].color = byColor

knightAttacks(b, row, col, byColor) ==
  \E i \in 1..8 :
    LET newRow == row + knightOffsets[i][1]
        newCol == col + knightOffsets[i][2] IN
    /\ OnBoard(newRow, newCol)
    /\ b[newRow][newCol].type = "knight" /\ b[newRow][newCol].color = byColor

\* Mutant: the walk stops after the first square of the direction.
lineAttackOneStep(b, r, c, dr, dc, byColor) ==
  /\ OnBoard(r, c)
  /\ b[r][c].color = byColor
  /\ \/ (dr # 0 /\ dc # 0) /\ b[r][c].type \in {"bishop", "queen"}
     \/ (dr = 0 \/ dc = 0) /\ b[r][c].type \in {"rook", "queen"}

\* The while loop of one direction: walk from (r, c) until a piece or the edge.
RECURSIVE lineAttack(_, _, _, _, _, _)
lineAttack(b, r, c, dr, dc, byColor) ==
  IF ~OnBoard(r, c) THEN FALSE
  ELSE LET piece == b[r][c] IN
       IF piece # Null
       THEN /\ piece.color = byColor
            /\ LET isDiagonal == dr # 0 /\ dc # 0
                   isOrthogonal == dr = 0 \/ dc = 0 IN
               \/ isDiagonal /\ piece.type \in {"bishop", "queen"}
               \/ isOrthogonal /\ piece.type \in {"rook", "queen"}
       ELSE lineAttack(b, r + dr, c + dc, dr, dc, byColor)

\* Mutant: only the four orthogonal directions are walked.
slidingAttacksOrthogonal(b, row, col, byColor) ==
  \E i \in {2, 4, 5, 7} :
    lineAttack(b, row + directions[i][1], col + directions[i][2],
               directions[i][1], directions[i][2], byColor)

slidingAttacks(b, row, col, byColor) ==
  \E i \in 1..8 :
    lineAttack(b, row + directions[i][1], col + directions[i][2],
               directions[i][1], directions[i][2], byColor)

kingAttacks(b, row, col, byColor) ==
  \E i \in 1..8 :
    LET newRow == row + directions[i][1]
        newCol == col + directions[i][2] IN
    /\ OnBoard(newRow, newCol)
    /\ b[newRow][newCol].type = "king" /\ b[newRow][newCol].color = byColor

isSquareUnderAttack(b, row, col, byColor) ==
  \/ pawnAttacks(b, row, col, byColor)
  \/ knightAttacks(b, row, col, byColor)
  \/ slidingAttacks(b, row, col, byColor)
  \/ kingAttacks(b, row, col, byColor)

\* The squares holding a king of the colour, and the first of them in the
\* row-major scan of isInCheck.
kingSquares(b, color) ==
  {sq \in Squares : b[sq[1]][sq[2]].type = "king" /\ b[sq[1]][sq[2]].color = color}

firstInScan(S) == CHOOSE k \in S : \A o \in S : k[1] * 8 + k[2] <= o[1] * 8 + o[2]

\* Mutant: a colour without a king counts as in check.
isInCheckKingless(b, color) ==
  LET ks == kingSquares(b, color) IN
  IF ks = {} THEN TRUE
  ELSE LET k == firstInScan(ks) IN
       isSquareUnderAttack(b, k[1], k[2], Opponent(color))

isInCheck(b, color) ==
  LET ks == kingSquares(b, color) IN
  IF ks = {} THEN FALSE
  ELSE LET k == firstInScan(ks) IN
       isSquareUnderAttack(b, k[1], k[2], Opponent(color))

\* Mutant: the move is not applied to the copy before the check test.
wouldBeInCheckUnmoved(b, move, color) == isInCheck(b, color)

wouldBeInCheck(b, move, color) ==
  LET piece == b[move.from.row][move.from.col]
      t1 == Put(Put(b, move.to.row, move.to.col, piece),
                move.from.row, move.from.col, Null)
      rookRow == IF color = "white" THEN 7 ELSE 0
      t2 == IF move.isCastle = "kingside"
            THEN Put(Put(t1, rookRow, 5, t1[rookRow][7]), rookRow, 7, Null)
            ELSE IF move.isCastle = "queenside"
            THEN Put(Put(t1, rookRow, 3, t1[rookRow][0]), rookRow, 0, Null)
            ELSE t1
      t3 == IF Truthy(move.isEnPassant)
            THEN Put(t2, move.from.row, move.to.col, Null)
            ELSE t2
  IN isInCheck(t3, color)

-----------------------------------------------------------------------------
(* Per-piece move generators                                               *)

\* Mutant: the two-square advance does not ask for the square in between to
\* be empty.
getPawnMovesJumping(b, row, col, piece) ==
  LET direction == IF piece.color = "white" THEN -1 ELSE 1
      startRow == IF piece.color = "white" THEN 6 ELSE 1
      newRow == row + direction
      one == newRow >= 0 /\ newRow < 8 /\ b[newRow][col] = Null
      forward ==
        (IF one
         THEN <<ChessMove(row, col, newRow, col, "undefined", "undefined", "undefined")>>
         ELSE <<>>)
        \o (IF row = startRow /\ b[row + 2 * direction][col] = Null
            THEN <<ChessMove(row, col, row + 2 * direction, col,
                             "undefined", "undefined", "undefined")>>
            ELSE <<>>)
      capture(dc) ==
        IF /\ col + dc >= 0 /\ col + dc < 8
           /\ newRow >= 0 /\ newRow < 8
           /\ b[newRow][col + dc] # Null
           /\ b[newRow][col + dc].color # piece.color
        THEN <<ChessMove(row, col, newRow, col + dc, "true", "undefined", "undefined")>>
        ELSE <<>>
      moves == forward \o capture(-1) \o capture(1)
      promotionRow == IF piece.color = "white" THEN 0 ELSE 7
  IN [i \in 1..Len(moves) |->
        IF moves[i].to.row = promotionRow
        THEN [moves[i] EXCEPT !.promotion = "queen"]
        ELSE moves[i]]

\* Mutant: the en passant stub is wired: a pawn on its fifth rank is offered
\* the empty square diagonally ahead when an enemy pawn stands beside it.
getPawnMovesEnPassant(b, row, col, piece) ==
  LET direction == IF piece.color = "white" THEN -1 ELSE 1
      startRow == IF piece.color = "white" THEN 6 ELSE 1
      newRow == row + direction
      one == newRow >= 0 /\ newRow < 8 /\ b[newRow][col] = Null
      forward ==
        IF one
        THEN <<ChessMove(row, col, newRow, col, "undefined", "undefined", "undefined")>>
             \o (IF row = startRow /\ b[row + 2 * direction][col] = Null
                 THEN <<ChessMove(row, col, row + 2 * direction, col,
                                  "undefined", "undefined", "undefined")>>
                 ELSE <<>>)
        ELSE <<>>
      capture(dc) ==
        IF /\ col + dc >= 0 /\ col + dc < 8
           /\ newRow >= 0 /\ newRow < 8
           /\ b[newRow][col + dc] # Null
           /\ b[newRow][col + dc].color # piece.color
        THEN <<ChessMove(row, col, newRow, col + dc, "true", "undefined", "undefined")>>
        ELSE <<>>
      passing(dc) ==
        IF /\ col + dc >= 0 /\ col + dc < 8
           /\ row = (IF piece.color = "white" THEN 3 ELSE 4)
           /\ b[newRow][col + dc] = Null
           /\ b[row][col + dc].type = "pawn"
           /\ b[row][col + dc].color # piece.color
        THEN <<[ChessMove(row, col, newRow, col + dc, "true", "undefined", "undefined")
                  EXCEPT !.isEnPassant = "true"]>>
        ELSE <<>>
      moves == forward \o capture(-1) \o passing(-1) \o capture(1) \o passing(1)
      promotionRow == IF piece.color = "white" THEN 0 ELSE 7
  IN [i \in 1..Len(moves) |->
        IF moves[i].to.row = promotionRow
        THEN [moves[i] EXCEPT !.promotion = "queen"]
        ELSE moves[i]]

getPawnMoves(b, row, col, piece) ==
  LET direction == IF piece.color = "white" THEN -1 ELSE 1
      startRow == IF piece.color = "white" THEN 6 ELSE 1
      newRow == row + direction
      one == newRow >= 0 /\ newRow < 8 /\ b[newRow][col] = Null
      forward ==
        IF one
        THEN <<ChessMove(row, col, newRow, col, "undefined", "undefined", "undefined")>>
             \o (IF row = startRow /\ b[row + 2 * direction][col] = Null
                 THEN <<ChessMove(row, col, row + 2 * direction, col,
                                  "undefined", "undefined", "undefined")>>
                 ELSE <<>>)
        ELSE <<>>
      capture(dc) ==
        IF /\ col + dc >= 0 /\ col + dc < 8
           /\ newRow >= 0 /\ newRow < 8
           /\ b[newRow][col + dc] # Null
           /\ b[newRow][col + dc].color # piece.color
        THEN <<ChessMove(row, col, newRow, col + dc, "true", "undefined", "undefined")>>
        ELSE <<>>
      moves == forward \o capture(-1) \o capture(1)
      promotionRow == IF piece.color = "white" THEN 0 ELSE 7
  IN [i \in 1..Len(moves) |->
        IF moves[i].to.row = promotionRow
        THEN [moves[i] EXCEPT !.promotion = "queen"]
        ELSE moves[i]]

\* Mutant: the target's colour is not tested, so own pieces are captured.
getKnightMovesAnyTarget(b, row, col, piece) ==
  LET step(i) ==
        LET newRow == row + knightOffsets[i][1]
            newCol == col + knightOffsets[i][2] IN
        IF OnBoard(newRow, newCol)
        THEN <<ChessMove(row, col, newRow, newCol,
                         IF b[newRow][newCol] # Null THEN "true" ELSE "false",
                         "undefined", "undefined")>>
        ELSE <<>>
  IN Flatten([i \in 1..8 |-> step(i)])

getKnightMoves(b, row, col, piece) ==
  LET step(i) ==
        LET newRow == row + knightOffsets[i][1]
            newCol == col + knightOffsets[i][2] IN
        IF OnBoard(newRow, newCol)
           /\ (b[newRow][newCol] = Null \/ b[newRow][newCol].color # piece.color)
        THEN <<ChessMove(row, col, newRow, newCol,
                         IF b[newRow][newCol] # Null THEN "true" ELSE "false",
                         "undefined", "undefined")>>
        ELSE <<>>
  IN Flatten([i \in 1..8 |-> step(i)])

\* Mutant: the first piece met is captured whatever its colour.
RECURSIVE slideAnyTarget(_, _, _, _, _, _, _, _)
slideAnyTarget(b, row, col, piece, r, c, dr, dc) ==
  IF ~OnBoard(r, c) THEN <<>>
  ELSE IF b[r][c] = Null
       THEN <<ChessMove(row, col, r, c, "undefined", "undefined", "undefined")>>
            \o slideAnyTarget(b, row, col, piece, r + dr, c + dc, dr, dc)
       ELSE <<ChessMove(row, col, r, c, "true", "undefined", "undefined")>>

\* The while loop of getSlidingMoves for one direction, from (r, c) on.
RECURSIVE slide(_, _, _, _, _, _, _, _)
slide(b, row, col, piece, r, c, dr, dc) ==
  IF ~OnBoard(r, c) THEN <<>>
  ELSE LET target == b[r][c] IN
       IF target = Null
       THEN <<ChessMove(row, col, r, c, "undefined", "undefined", "undefined")>>
            \o slide(b, row, col, piece, r + dr, c + dc, dr, dc)
       ELSE IF target.color # piece.color
       THEN <<ChessMove(row, col, r, c, "true", "undefined", "undefined")>>
       ELSE <<>>

getSlidingMoves(b, row, col, piece, dirs) ==
  Flatten([i \in 1..Len(dirs) |->
             slide(b, row, col, piece, row + dirs[i][1], col + dirs[i][2],
                   dirs[i][1], dirs[i][2])])

bishopDirections == << <<-1, -1>>, <<-1, 1>>, <<1, -1>>, <<1, 1>> >>

rookDirections == << <<-1, 0>>, <<1, 0>>, <<0, -1>>, <<0, 1>> >>

getBishopMoves(b, row, col, piece) == getSlidingMoves(b, row, col, piece, bishopDirections)

getRookMoves(b, row, col, piece) == getSlidingMoves(b, row, col, piece, rookDirections)

getQueenMoves(b, row, col, piece) == getSlidingMoves(b, row, col, piece, directions)

\* The probe of getKingMoves: is square (r, c) attacked once the king stands
\* there and has left (row, col)?
kingProbe(b, row, col, piece, r, c) ==
  isSquareUnderAttack(Put(Put(b, r, c, piece), row, col, Null),
                      r, c, Opponent(piece.color))

kingSteps(b, row, col, piece) ==
  LET step(i) ==
        LET newRow == row + directions[i][1]
            newCol == col + directions[i][2] IN
        IF /\ OnBoard(newRow, newCol)
           /\ (b[newRow][newCol] = Null \/ b[newRow][newCol].color # piece.color)
           /\ ~kingProbe(b, row, col, piece, newRow, newCol)
        THEN <<ChessMove(row, col, newRow, newCol, "undefined", "undefined", "undefined")>>
        ELSE <<>>
  IN Flatten([i \in 1..8 |-> step(i)])

kingCol == 4

\* The rook test and the path loop of one castling side; passed lists the
\* columns between king and rook, checked lists those probed for attack.
castleSide(b, row, col, piece, rookCol, passed, checked, toCol, side) ==
  LET rook == b[row][rookCol] IN
  IF /\ col = kingCol
     /\ rook # Null /\ rook.type = "rook" /\ rook.color = piece.color
     /\ ~Truthy(rook.hasMoved)
     /\ \A c \in passed :
          /\ b[row][c] = Null
          /\ (c \in checked => ~kingProbe(b, row, col, piece, row, c))
  THEN <<ChessMove(row, col, row, toCol, "undefined", side, "undefined")>>
  ELSE <<>>

castleMoves(b, row, col, piece) ==
  IF ~Truthy(piece.hasMoved) /\ ~isInCheck(b, piece.color)
  THEN castleSide(b, row, col, piece, 7, (col + 1)..6,
                  {c \in (col + 1)..6 : c <= col + 2}, col + 2, "kingside")
       \o castleSide(b, row, col, piece, 0, 1..(col - 1),
                     {c \in 1..(col - 1) : c >= col - 2}, col - 2, "queenside")
  ELSE <<>>

getKingMoves(b, row, col, piece) ==
  kingSteps(b, row, col, piece) \o castleMoves(b, row, col, piece)

-----------------------------------------------------------------------------
(* Legal move query                                                        *)

pseudoMoves(b, row, col, piece) ==
  CASE piece.type = "pawn" -> getPawnMoves(b, row, col, piece)
    [] piece.type = "knight" -> getKnightMoves(b, row, col, piece)
    [] piece.type = "bishop" -> getBishopMoves(b, row, col, piece)
    [] piece.type = "rook" -> getRookMoves(b, row, col, piece)
    [] piece.type = "queen" -> getQueenMoves(b, row, col, piece)
    [] piece.type = "king" -> getKingMoves(b, row, col, piece)
    [] OTHER -> <<>>

\* Mutant: the piece is looked up with row and column exchanged.
getValidMovesSwapped(b, row, col) ==
  LET piece == b[col][row] IN
  IF piece = Null THEN <<>>
  ELSE SelectSeq(pseudoMoves(b, row, col, piece),
                 LAMBDA move : ~wouldBeInCheck(b, move, piece.color))

getValidMoves(b, row, col) ==
  LET piece == b[row][col] IN
  IF piece = Null THEN <<>>
  ELSE SelectSeq(pseudoMoves(b, row, col, piece),
                 LAMBDA move : ~wouldBeInCheck(b, move, piece.color))

-----------------------------------------------------------------------------
(* Game-end detection                                                      *)

\* The scan of isCheckmate and isStalemate: no piece of the colour has a move.
noValidMoves(b, color) ==
  \A sq \in Squares :
    b[sq[1]][sq[2]] # Null /\ b[sq[1]][sq[2]].color = color
      => getValidMoves(b, sq[1], sq[2]) = <<>>

isCheckmate(b, color) ==
  IF ~isInCheck(b, color) THEN FALSE ELSE noValidMoves(b, color)

\* Mutant: the check test is left out.
isStalemateUnchecked(b, color) == noValidMoves(b, color)

isStalemate(b, color) ==
  IF isInCheck(b, color) THEN FALSE ELSE noValidMoves(b, color)

\* The pieces pushed to whitePieces / blackPieces, as the squares they stand on.
whitePieces(b) ==
  {sq \in Squares : b[sq[1]][sq[2]] # Null /\ b[sq[1]][sq[2]].color = "white"}

blackPieces(b) ==
  {sq \in Squares : b[sq[1]][sq[2]] # Null /\ b[sq[1]][sq[2]].color # "white"}

\* Array.find over the pieces in scan order with the test p.type === type
\* (equal) or p.type !== type (not equal): the type of the first piece that
\* satisfies it, "undefined" if none does.
findType(b, S, type, equal) ==
  LET M == {sq \in S : (b[sq[1]][sq[2]].type = type) = equal} IN
  IF M = {} THEN "undefined"
  ELSE LET f == firstInScan(M) IN b[f[1]][f[2]].type

\* Mutant: a lone knight beside the king is not counted as insufficient.
isDrawBishopOnly(b) ==
  LET w == whitePieces(b)
      k == blackPieces(b)
      nw == Cardinality(w)
      nb == Cardinality(k) IN
  IF nw = 1 /\ nb = 1 THEN TRUE
  ELSE IF (nw = 2 /\ nb = 1) \/ (nw = 1 /\ nb = 2)
  THEN findType(b, IF nw > nb THEN w ELSE k, "king", FALSE) = "bishop"
  ELSE IF nw = 2 /\ nb = 2
  THEN /\ findType(b, w, "bishop", TRUE) # "undefined"
       /\ findType(b, k, "bishop", TRUE) # "undefined"
  ELSE FALSE

isDrawByInsufficientMaterial(b) ==
  LET w == whitePieces(b)
      k == blackPieces(b)
      nw == Cardinality(w)
      nb == Cardinality(k) IN
  IF nw = 1 /\ nb = 1 THEN TRUE
  ELSE IF (nw = 2 /\ nb = 1) \/ (nw = 1 /\ nb = 2)
  THEN LET morePieces == IF nw > nb THEN w ELSE k
           secondPiece == findType(b, morePieces, "king", FALSE) IN
       secondPiece = "bishop" \/ secondPiece = "knight"
  ELSE IF nw = 2 /\ nb = 2
  THEN LET whiteBishop == findType(b, w, "bishop", TRUE)
           blackBishop == findType(b, k, "bishop", TRUE) IN
       whiteBishop # "undefined" /\ blackBishop # "undefined"
  ELSE FALSE

-----------------------------------------------------------------------------
(* Move application                                                        *)

(* makeMove works on objects: a board is an array of 8 row arrays, a row    *)
(* holds 8 piece objects or null.  The heap of a call gives every row      *)
(* array and every piece object an identity (0 is null), so that a write   *)
(* through one reference is seen through every other reference to it.      *)

\* The caller's board: row r is row object r + 1, the piece on (r, c) is
\* piece object r * 8 + c + 1.
inputRef == [r \in Idx |-> r + 1]

heapOf(b) ==
  [rows |-> [i \in 1..8 |->
               [c \in Idx |-> IF b[i - 1][c] = Null THEN 0 ELSE (i - 1) * 8 + c + 1]],
   objs |-> [i \in 1..64 |-> b[(i - 1) \div 8][(i - 1) % 8]]]

\* board[r][c] read through a board reference.
at(h, ref, r, c) ==
  LET id == h.rows[ref[r]][c] IN IF id = 0 THEN Null ELSE h.objs[id]

deref(h, ref) == [r \in Idx |-> [c \in Idx |-> at(h, ref, r, c)]]

\* Mutant: newBoard = board, the same object instead of a copy.
jsonCloneAlias(h, ref) == [heap |-> h, ref |-> ref]

\* JSON.parse(JSON.stringify(board)): new row arrays holding new piece objects.
jsonClone(h, ref) ==
  LET nr == Len(h.rows)
      no == Len(h.objs) IN
  [heap |->
     [rows |-> h.rows \o
                 [i \in 1..8 |->
                    [c \in Idx |-> IF h.rows[ref[i - 1]][c] = 0 THEN 0
                                   ELSE no + (i - 1) * 8 + c + 1]],
      objs |-> h.objs \o
                 [i \in 1..64 |-> at(h, ref, (i - 1) \div 8, (i - 1) % 8)]],
   ref |-> [r \in Idx |-> nr + r + 1]]

\* The assignments makeMove makes to squares of a board, as statements:
\*   board[r][c] = { ...value }         (a new object)
\*   board[r][c] = null
\*   board[r][c] = { ...board[fr][fc], hasMoved: true }
storeNew(r, c, value) ==
  [op |-> "new", row |-> r, col |-> c, value |-> value, fromRow |-> 0, fromCol |-> 0]

storeNull(r, c) ==
  [op |-> "null", row |-> r, col |-> c, value |-> Null, fromRow |-> 0, fromCol |-> 0]

storeMoved(r, c, fr, fc) ==
  [op |-> "moved", row |-> r, col |-> c, value |-> Null, fromRow |-> fr, fromCol |-> fc]

\*   board[r][c] = board[fr][fc]         (the same object)
storeRef(r, c, fr, fc) ==
  [op |-> "ref", row |-> r, col |-> c, value |-> Null, fromRow |-> fr, fromCol |-> fc]

\* {...piece, hasMoved: true}: spreading null leaves only the hasMoved field.
\* Mutant: the piece is copied without marking it moved.
spreadCopied(p) == p

spreadMoved(p) ==
  IF p = Null THEN ChessPiece("undefined", "undefined", "true")
  ELSE [p EXCEPT !.hasMoved = "true"]

\* One statement executed on the board object ref.
store(h, ref, w) ==
  IF w.op = "null" THEN [h EXCEPT !.rows[ref[w.row]][w.col] = 0]
  ELSE IF w.op = "ref"
  THEN [h EXCEPT !.rows[ref[w.row]][w.col] = h.rows[ref[w.fromRow]][w.fromCol]]
  ELSE [rows |-> [h.rows EXCEPT ![ref[w.row]][w.col] = Len(h.objs) + 1],
        objs |-> Append(h.objs,
                        IF w.op = "new" THEN w.value
                        ELSE spreadMoved(at(h, ref, w.fromRow, w.fromCol)))]

RECURSIVE storeAll(_, _, _)
storeAll(h, ref, ws) ==
  IF ws = <<>> THEN h ELSE storeAll(store(h, ref, Head(ws)), ref, Tail(ws))

\* Mutant: the rook's new column is computed with the sides exchanged.
handleCastleSwapped(move) ==
  LET row == move.from.row
      rookCol == IF move.isCastle = "kingside" THEN 7 ELSE 0
      newRookCol == IF move.isCastle = "kingside" THEN move.to.col + 1
                    ELSE move.to.col - 1 IN
  <<storeMoved(row, newRookCol, row, rookCol), storeNull(row, rookCol)>>

handleCastle(move) ==
  LET row == move.from.row
      rookCol == IF move.isCastle = "kingside" THEN 7 ELSE 0
      newRookCol == IF move.isCastle = "kingside" THEN move.to.col - 1
                    ELSE move.to.col + 1 IN
  <<storeMoved(row, newRookCol, row, rookCol), storeNull(row, rookCol)>>

\* Mutant: row and column of the captured pawn's square are taken from the
\* wrong ends of the move.
handleEnPassantCrossed(move) == <<storeNull(move.to.row, move.from.col)>>

handleEnPassant(move) == <<storeNull(move.from.row, move.to.col)>>

\* Mutant: the promotion piece is not put on the destination.
makeMoveStoresUnpromoted(piece, move) ==
  <<storeNew(move.to.row, move.to.col, spreadMoved(piece)),
    storeNull(move.from.row, move.from.col)>>
  \o (IF Truthy(move.isCastle) THEN handleCastle(move) ELSE <<>>)
  \o (IF Truthy(move.isEnPassant) THEN handleEnPassant(move) ELSE <<>>)

\* Lines 50-72 of makeMove: the statements executed on newBoard, in order,
\* for the piece found on move.from.
makeMoveStores(piece, move) ==
  <<storeNew(move.to.row, move.to.col, spreadMoved(piece)),
    storeNull(move.from.row, move.from.col)>>
  \o (IF Truthy(move.isCastle) THEN handleCastle(move) ELSE <<>>)
  \o (IF Truthy(move.isEnPassant) THEN handleEnPassant(move) ELSE <<>>)
  \o (IF Truthy(move.promotion)
      THEN <<storeNew(move.to.row, move.to.col,
                      ChessPiece(move.promotion, piece.color, "true"))>>
      ELSE <<>>)

\* Lines 47-72 of makeMove for a piece on move.from: the heap when the call
\* returns and the reference newBoard.
applyMove(b, move) ==
  LET clone == jsonClone(heapOf(b), inputRef) IN
  [heap |-> storeAll(clone.heap, clone.ref,
                     makeMoveStores(b[move.from.row][move.from.col], move)),
   newBoard |-> clone.ref]

\* What the caller can observe of the objects once lines 47-72 have run:
\* the contents of newBoard, the contents of its own board, and the squares
\* of newBoard whose row array or piece object its own board also refers to.
objectsAfter(b, move) ==
  LET k == applyMove(b, move)
      h == k.heap
      rowIds == {inputRef[r] : r \in Idx}
      objIds == {h.rows[inputRef[sq[1]]][sq[2]] : sq \in Squares} \ {0} IN
  [newBoard |-> deref(h, k.newBoard),
   inputAfter |-> deref(h, inputRef),
   shared |-> {sq \in Squares :
                 \/ k.newBoard[sq[1]] \in rowIds
                 \/ h.rows[k.newBoard[sq[1]]][sq[2]] \in objIds}]

\* Mutant: the query works on the caller's board itself.
copyBoardAlias(h, ref) == [heap |-> h, ref |-> ref]

\* const testBoard = JSON.parse(JSON.stringify(board)) of wouldBeInCheck and
\* of the probes of getKingMoves.
copyBoard(h, ref) == jsonClone(h, ref)

\* The statements wouldBeInCheck executes on testBoard, in order.
wouldBeInCheckStores(move, color) ==
  LET rookRow == IF color = "white" THEN 7 ELSE 0 IN
  <<storeRef(move.to.row, move.to.col, move.from.row, move.from.col),
    storeNull(move.from.row, move.from.col)>>
  \o (IF move.isCastle = "kingside"
      THEN <<storeRef(rookRow, 5, rookRow, 7), storeNull(rookRow, 7)>>
      ELSE IF move.isCastle = "queenside"
      THEN <<storeRef(rookRow, 3, rookRow, 0), storeNull(rookRow, 0)>>
      ELSE <<>>)
  \o (IF Truthy(move.isEnPassant)
      THEN <<storeNull(move.from.row, move.to.col)>>
      ELSE <<>>)

\* The statements a probe of getKingMoves executes on testBoard:
\* testBoard[r][c] = { ...piece }; testBoard[row][col] = null.
kingProbeStores(piece, row, col, r, c) ==
  <<storeNew(r, c, piece), storeNull(row, col)>>

\* A query copies the caller's board b and executes statements on the copy:
\* the contents of the copy and of the caller's board afterwards.
queryOn(b, ws) ==
  LET copy == copyBoard(heapOf(b), inputRef)
      h == storeAll(copy.heap, copy.ref, ws) IN
  [testBoard |-> deref(h, copy.ref), boardAfter |-> deref(h, inputRef)]

NoBoard == [r \in Idx |-> [c \in Idx |-> Null]]

NoMove == ChessMove(0, 0, 0, 0, "undefined", "undefined", "undefined")

\* A MoveResult; absent fields are "undefined" (NoBoard, NoMove for the
\* structured ones).
MoveResult(valid, error, move, newBoard, inCheck, checkmate, stalemate, draw) ==
  [valid |-> valid, error |-> error, move |-> move, newBoard |-> newBoard,
   inCheck |-> inCheck, isCheckmate |-> checkmate, isStalemate |-> stalemate,
   isDraw |-> draw]

NoResult ==
  MoveResult(FALSE, "undefined", NoMove, NoBoard, "undefined",
             "undefined", "undefined", "undefined")

\* makeMove, with newBoard standing for the board lines 47-72 have built.
makeMoveWith(b, move, newBoard) ==
  LET piece == b[move.from.row][move.from.col] IN
  IF piece = Null
  THEN MoveResult(FALSE, "No piece at the source position", NoMove, NoBoard,
                  "undefined", "undefined", "undefined", "undefined")
  ELSE LET opponentColor == IF piece.color = "white" THEN "black" ELSE "white"
           inCheck == isInCheck(newBoard, opponentColor)
           checkmate == inCheck /\ isCheckmate(newBoard, opponentColor)
           stalemate == ~inCheck /\ isStalemate(newBoard, opponentColor)
           draw == isDrawByInsufficientMaterial(newBoard)
       IN MoveResult(TRUE, "undefined", move, newBoard,
                     IF inCheck THEN opponentColor ELSE "undefined",
                     IF checkmate THEN "true" ELSE "false",
                     IF stalemate THEN "true" ELSE "false",
                     IF draw THEN "true" ELSE "false")

\* Mutant: the failure result carries the board it was given as newBoard.
makeMoveCallCarrying(b, move) ==
  IF b[move.from.row][move.from.col] = Null
  THEN [result |-> [makeMoveWith(b, move, NoBoard) EXCEPT !.newBoard = b],
        inputAfter |-> b, shared |-> {}]
  ELSE LET o == objectsAfter(b, move) IN
       [result |-> makeMoveWith(b, move, o.newBoard),
        inputAfter |-> o.inputAfter, shared |-> o.shared]

\* The call makeMove(b, move) as the caller sees it: the MoveResult, its own
\* board afterwards and the objects it shares with newBoard.
makeMoveCall(b, move) ==
  IF b[move.from.row][move.from.col] = Null
  THEN [result |-> makeMoveWith(b, move, NoBoard), inputAfter |-> b, shared |-> {}]
  ELSE LET o == objectsAfter(b, move) IN
       [result |-> makeMoveWith(b, move, o.newBoard),
        inputAfter |-> o.inputAfter, shared |-> o.shared]

makeMove(b, move) == makeMoveCall(b, move).result

-----------------------------------------------------------------------------
(* Notation                                                                *)

files == <<"a", "b", "c", "d", "e", "f", "g", "h">>

\* Mutant: the rank digits run in the order of the row indices.
ranksAscending == <<"1", "2", "3", "4", "5", "6", "7", "8">>

ranks == <<"8", "7", "6", "5", "4", "3", "2", "1">>

\* move.promotion.charAt(0).toUpperCase()
charAtUpper(promotion) ==
  CASE promotion = "queen" -> "Q"
    [] promotion = "knight" -> "K"
    [] promotion = "bishop" -> "B"
    [] promotion = "rook" -> "R"

moveToAlgebraic(move) ==
  LET fromSquare == <<files[move.from.col + 1], ranks[move.from.row + 1]>>
      toSquare == <<files[move.to.col + 1], ranks[move.to.row + 1]>> IN
  IF move.isCastle = "kingside" THEN <<"O", "-", "O">>
  ELSE IF move.isCastle = "queenside" THEN <<"O", "-", "O", "-", "O">>
  ELSE fromSquare \o toSquare
       \o (IF Truthy(move.promotion)
           THEN <<"=", charAtUpper(move.promotion)>> ELSE <<>>)
       \o (IF Truthy(move.isCheck) THEN <<"+">> ELSE <<>>)
       \o (IF Truthy(move.isCheckmate) THEN <<"#">> ELSE <<>>)

-----------------------------------------------------------------------------
(* Positions                                                               *)

backRank(color) ==
  [c \in Idx |->
     ChessPiece(<<"rook", "knight", "bishop", "queen",
                  "king", "bishop", "knight", "rook">>[c + 1], color, "undefined")]

pawnRank(color) == [c \in Idx |-> ChessPiece("pawn", color, "undefined")]

emptyRank == [c \in Idx |-> Null]

initialBoard ==
  [r \in Idx |->
     CASE r = 0 -> backRank("black")
       [] r = 1 -> pawnRank("black")
       [] r = 6 -> pawnRank("white")
       [] r = 7 -> backRank("white")
       [] OTHER -> emptyRank]

\* The board holding exactly the pieces of ps, each <<row, col, type, colour,
\* hasMoved>>.
position(ps) ==
  [r \in Idx |->
     [c \in Idx |->
        IF \E p \in ps : p[1] = r /\ p[2] = c
        THEN LET p == CHOOSE q \in ps : q[1] = r /\ q[2] = c IN
             ChessPiece(p[3], p[4], p[5])
        ELSE Null]]

\* Both sides may still castle; the black knight on g3 attacks f1 and e2.
castleBoard ==
  position({<<7, 4, "king", "white", "undefined">>,
            <<7, 0, "rook", "white", "undefined">>,
            <<7, 7, "rook", "white", "undefined">>,
            <<0, 4, "king", "black", "false">>,
            <<0, 0, "rook", "black", "false">>,
            <<5, 6, "knight", "black", "true">>})

\* An unmoved white king and rook on row 6, a black bishop on a1.
offHomeBoard ==
  position({<<6, 4, "king", "white", "undefined">>,
            <<6, 0, "rook", "white", "undefined">>,
            <<7, 0, "bishop", "black", "true">>,
            <<0, 7, "king", "black", "true">>})

\* Pawns one step from promotion, each with a capture at hand.
promotionBoard ==
  position({<<1, 1, "pawn", "white", "true">>,
            <<7, 6, "king", "white", "true">>,
            <<7, 2, "knight", "white", "true">>,
            <<0, 2, "rook", "black", "true">>,
            <<0, 6, "king", "black", "true">>,
            <<6, 3, "pawn", "black", "true">>})

\* King and queen against a cornered king: mates and a stalemate in one.
queenEndBoard ==
  position({<<1, 5, "king", "white", "true">>,
            <<3, 6, "queen", "white", "true">>,
            <<0, 7, "king", "black", "true">>})

\* One minor piece each, the white one able to capture the black one.
minorBoard(whiteType, blackType, r, c) ==
  position({<<7, 4, "king", "white", "true">>,
            <<5, 2, whiteType, "white", "true">>,
            <<0, 4, "king", "black", "true">>,
            <<r, c, blackType, "black", "true">>})

\* Pawns next to both kings, in front of and behind them.
pawnBoard ==
  position({<<4, 4, "king", "white", "true">>,
            <<6, 1, "pawn", "white", "undefined">>,
            <<3, 2, "pawn", "white", "true">>,
            <<2, 3, "king", "black", "true">>,
            <<4, 5, "pawn", "black", "true">>,
            <<1, 6, "pawn", "black", "undefined">>})

\* White may castle on both sides as the engine sees it; the black pawn on
\* g2 stands diagonally in front of f1 and h1, the way black pawns capture.
pawnCastleBoard ==
  position({<<7, 4, "king", "white", "false">>,
            <<7, 0, "rook", "white", "false">>,
            <<7, 7, "rook", "white", "false">>,
            <<0, 4, "king", "black", "true">>,
            <<6, 6, "pawn", "black", "true">>})

\* The white bishop on e2 is pinned to its king by the rook on e6.
pinBoard ==
  position({<<7, 4, "king", "white", "true">>,
            <<6, 4, "bishop", "white", "true">>,
            <<2, 4, "rook", "black", "true">>,
            <<0, 7, "king", "black", "true">>})

\* A lone black king next to an undefended knight.
bareBoard ==
  position({<<7, 4, "king", "white", "true">>,
            <<1, 3, "knight", "white", "true">>,
            <<0, 4, "king", "black", "true">>})

\* King and bishop each; the white bishop mates from f6: the black king in
\* the corner h8 is hemmed in by its own bishop on g8 and the white king on h6.
bishopMateBoard ==
  position({<<2, 7, "king", "white", "true">>,
            <<4, 7, "bishop", "white", "true">>,
            <<0, 7, "king", "black", "true">>,
            <<0, 6, "bishop", "black", "true">>})

Colors == {"white", "black"}

Seeds ==
  {[board |-> initialBoard, turn |-> "white"]}
  \cup {[board |-> b, turn |-> t] :
          b \in {castleBoard, promotionBoard, pawnBoard}, t \in Colors}
  \cup {[board |-> b, turn |-> "white"] :
          b \in {offHomeBoard, queenEndBoard, pawnCastleBoard, pinBoard,
                 minorBoard("bishop", "bishop", 4, 3),
                 minorBoard("knight", "knight", 3, 3),
                 minorBoard("bishop", "knight", 4, 3), bishopMateBoard}}
  \cup {[board |-> bareBoard, turn |-> "black"]}

\* The line e2e4 e7e5 f1c4 b8c6 d1h5 g8f6 h5xf7, each <<from row, from col,
\* to row, to col>>.
scholarsMate ==
  << <<6, 4, 4, 4>>, <<1, 4, 3, 4>>, <<7, 5, 4, 2>>, <<0, 1, 2, 2>>,
     <<7, 3, 3, 7>>, <<0, 6, 2, 5>>, <<3, 7, 1, 5>> >>

-----------------------------------------------------------------------------
(* The game: positions reached by applying generated moves                 *)

\* Two further lines from the initial position.  kingHunt: e2e4 a7a6 e4e5
\* a6a5 e5e6 a5a4 e6xf7 a4a3 f7xe8.  kingWalk: e2e4 e7e5 e1e2 e8e7 e2e1 e7e8
\* g1f3 g8f6 f1e2 f8e7.
kingHunt ==
  << <<6, 4, 4, 4>>, <<1, 0, 2, 0>>, <<4, 4, 3, 4>>, <<2, 0, 3, 0>>,
     <<3, 4, 2, 4>>, <<3, 0, 4, 0>>, <<2, 4, 1, 5>>, <<4, 0, 5, 0>>,
     <<1, 5, 0, 4>> >>

kingWalk ==
  << <<6, 4, 4, 4>>, <<1, 4, 3, 4>>, <<7, 4, 6, 4>>, <<0, 4, 1, 4>>,
     <<6, 4, 7, 4>>, <<1, 4, 0, 4>>, <<7, 6, 5, 5>>, <<0, 6, 2, 5>>,
     <<7, 5, 6, 4>>, <<0, 5, 1, 4>> >>

\* passedPawn: e2e4 a7a6 e4e5 d7d5, a two-square advance that lands beside a
\* pawn on its fifth rank.
passedPawn ==
  << <<6, 4, 4, 4>>, <<1, 0, 2, 0>>, <<4, 4, 3, 4>>, <<1, 3, 3, 3>> >>

lines == <<kingHunt, kingWalk, passedPawn>>

NoProbe ==
  [row |-> 0, col |-> 0, byColor |-> "undefined", pawn |-> FALSE,
   knight |-> FALSE, sliding |-> FALSE, king |-> FALSE, attacked |-> FALSE]

-----------------------------------------------------------------------------
(* The stored game document (ChessGame component)                          *)

digits == <<"0", "1", "2", "3", "4", "5", "6", "7", "8", "9">>

\* `${row}_${col}`, as the sequence of its characters.
keyOf(row, col) == <<digits[row + 1], "_", digits[col + 1]>>

\* Number(s) of a one-digit string; -1 stands for NaN.
Number(s) ==
  IF \E n \in 0..9 : digits[n + 1] = s
  THEN CHOOSE n \in 0..9 : digits[n + 1] = s
  ELSE -1

\* key.split('_').map(Number), first two entries, for keys holding one '_'.
splitKey(key) ==
  LET cut == CHOOSE i \in 1..Len(key) : key[i] = "_"
      head == SubSeq(key, 1, cut - 1)
      tail == SubSeq(key, cut + 1, Len(key)) IN
  <<IF Len(head) = 1 THEN Number(head[1]) ELSE -1,
    IF Len(tail) = 1 THEN Number(tail[1]) ELSE -1>>

\* Mutant: the stored piece carries no hasMoved field.
storedPieceBare(piece) == ChessPiece(piece.type, piece.color, "undefined")

\* { type, color, hasMoved: piece.hasMoved || false }.
storedPiece(piece) ==
  ChessPiece(piece.type, piece.color,
             IF Truthy(piece.hasMoved) THEN piece.hasMoved ELSE "false")

\* boardForFirestore: the occupied squares only, as <<key, piece>> entries.
serializeBoard(b) ==
  {<<keyOf(sq[1], sq[2]), storedPiece(b[sq[1]][sq[2]])>> :
     sq \in {s \in Squares : b[s[1]][s[2]] # Null}}

deserializeBoard(boardData) ==
  [r \in Idx |-> [c \in Idx |->
     LET hits == {e \in boardData : splitKey(e[1]) = <<r, c>>} IN
     IF hits = {} THEN Null ELSE (CHOOSE e \in hits : TRUE)[2]]]

\* The fields of the game document the game reads back.
Document(b, turn, st) ==
  [board |-> serializeBoard(b), currentTurn |-> turn, status |-> st]

NoQuery ==
  [kind |-> "none", move |-> NoMove, testBoard |-> NoBoard, before |-> NoBoard]

MaxPly == 1

Init ==
  /\ \E s \in Seeds : board = s.board /\ currentTurn = s.turn
  /\ result = NoResult
  /\ input = NoBoard
  /\ inputAfter = NoBoard
  /\ shared = {}
  /\ ply = 0
  /\ script = 0
  /\ line = 0
  /\ played = 0
  /\ noted = NoMove
  /\ notation = <<>>
  /\ probe = NoProbe
  /\ status = "active"
  /\ stored = Document(board, currentTurn, "active")
  /\ queried = NoQuery

\* makeMove(board, move) is called and the game takes over its new board
\* (ChessGame.makeMove).
Apply(move) ==
  LET call == makeMoveCall(board, move)
      res == call.result IN
  /\ result' = res
  /\ board' = IF res.valid THEN res.newBoard ELSE board
  /\ input' = board
  /\ inputAfter' = call.inputAfter
  /\ shared' = call.shared
  /\ ply' = ply + 1

\* The status the game takes from a MoveResult.
statusOf(res) ==
  IF res.isCheckmate = "true" THEN "checkmate"
  ELSE IF res.isStalemate = "true" THEN "stalemate"
  ELSE IF res.isDraw = "true" THEN "draw"
  ELSE "active"

\* The game takes its status from the result of the move and writes board,
\* turn and status to the game document (ChessGame.makeMove).
Record(nextTurn) ==
  /\ status' = statusOf(result')
  /\ stored' = Document(board', nextTurn, statusOf(result'))

\* The game renders the move it has applied (ChessGame.makeMove).
Notate(move) ==
  /\ noted' = move
  /\ notation' = moveToAlgebraic(move)

\* The move of getValidMoves(b, row, col) to the clicked square, as
\* handleSquareClick finds it; a bare move when there is none.
moveTo(b, row, col, toRow, toCol) ==
  LET moves == getValidMoves(b, row, col)
      hits == {i \in 1..Len(moves) : moves[i].to.row = toRow /\ moves[i].to.col = toCol}
  IN IF hits = {}
     THEN ChessMove(row, col, toRow, toCol, "undefined", "undefined", "undefined")
     ELSE moves[CHOOSE i \in hits : \A j \in hits : i <= j]

\* The side to move plays any move getValidMoves offers for one of its pieces.
PlayMove ==
  /\ script = 0
  /\ ply < MaxPly
  /\ \E sq \in Squares :
       /\ board[sq[1]][sq[2]].color = currentTurn
       /\ LET moves == getValidMoves(board, sq[1], sq[2]) IN
          \E i \in 1..Len(moves) :
            /\ Apply(moves[i]) /\ Notate(moves[i])
            /\ Record(Opponent(currentTurn))
  /\ currentTurn' = Opponent(currentTurn)
  /\ UNCHANGED <<script, line, played, probe, queried>>

\* The next move of the scripted line is played from the initial position.
PlayScripted ==
  /\ script = ply
  /\ ply = 0 => board = initialBoard
  /\ script < Len(scholarsMate)
  /\ LET m == scholarsMate[script + 1]
         move == moveTo(board, m[1], m[2], m[3], m[4]) IN
     Apply(move) /\ Notate(move) /\ Record(Opponent(currentTurn))
  /\ currentTurn' = Opponent(currentTurn)
  /\ script' = script + 1
  /\ UNCHANGED <<line, played, probe, queried>>

\* The next move of one of the further lines is played from the initial
\* position.
PlayLine ==
  /\ played = ply
  /\ ply = 0 => board = initialBoard
  /\ \E k \in 1..Len(lines) :
       /\ ply > 0 => k = line
       /\ played < Len(lines[k])
       /\ line' = k
       /\ LET m == lines[k][played + 1]
              move == moveTo(board, m[1], m[2], m[3], m[4]) IN
          Apply(move) /\ Notate(move) /\ Record(Opponent(currentTurn))
  /\ currentTurn' = Opponent(currentTurn)
  /\ played' = played + 1
  /\ UNCHANGED <<script, probe, queried>>

Next == PlayMove \/ PlayScripted \/ PlayLine

Spec == Init /\ [][Next]_vars

-----------------------------------------------------------------------------
(* The engine called directly: makeMove on any move, generated or not      *)

\* Squares the probed moves run between: castling, promotion and capture
\* squares of the positions above, and squares that are empty in them.
probeSquares ==
  << <<7, 4>>, <<7, 6>>, <<1, 1>>, <<0, 2>>, <<0, 1>>, <<3, 3>>,
     <<7, 2>>, <<6, 4>>, <<6, 2>>, <<5, 2>> >>

MaxProbe == 6

Probes == {probeSquares[i] : i \in 1..(IF MaxProbe < 10 THEN MaxProbe ELSE 10)}

\* The settings of the optional fields isCastle, isEnPassant and promotion.
flagSettings ==
  { <<"undefined", "undefined", "undefined">>,
    <<"kingside", "undefined", "undefined">>,
    <<"queenside", "undefined", "undefined">>,
    <<"undefined", "true", "undefined">>,
    <<"undefined", "undefined", "queen">>,
    <<"undefined", "undefined", "knight">>,
    <<"kingside", "true", "rook">> }

AnyMoves ==
  {[ChessMove(f[1], f[2], t[1], t[2], "undefined", g[1], g[3])
      EXCEPT !.isEnPassant = g[2]] :
     f \in Probes, t \in Probes, g \in flagSettings}

\* One call of makeMove on the position, with any move.
CallMakeMove ==
  /\ ply = 0
  /\ \E move \in AnyMoves : Apply(move)
  /\ UNCHANGED <<currentTurn, script, line, played, noted, notation, probe,
                 status, stored, queried>>

NextApi == CallMakeMove

SpecApi == Init /\ [][NextApi]_vars

-----------------------------------------------------------------------------
(* The game session: moves, turn timer, resignation, document snapshots    *)

\* The turn timer has run out while the game is active: the turn passes to
\* the other colour, in the document and in the game (handleTimeExpired).
HandleTimeExpired ==
  /\ status = "active"
  /\ currentTurn' = Opponent(currentTurn)
  /\ stored' = [stored EXCEPT !.currentTurn = Opponent(currentTurn)]
  /\ UNCHANGED <<board, result, input, inputAfter, shared, ply, script, line,
                 played, noted, notation, probe, status, queried>>

\* A player resigns through the button shown while the game is active: the
\* status becomes 'resigned' in the document and in the game (resignGame).
ResignGame ==
  /\ status = "active"
  /\ status' = "resigned"
  /\ stored' = [stored EXCEPT !.status = "resigned"]
  /\ UNCHANGED <<board, currentTurn, result, input, inputAfter, shared, ply,
                 script, line, played, noted, notation, probe, queried>>

\* A snapshot of the document arrives: the game takes the rebuilt board,
\* the turn and the status from it (listenToGame).
Snapshot ==
  /\ board' = deserializeBoard(stored.board)
  /\ currentTurn' = stored.currentTurn
  /\ status' = stored.status
  /\ UNCHANGED <<result, input, inputAfter, shared, ply, script, line, played,
                 noted, notation, probe, stored, queried>>

\* Some piece of the colour has a move, before the check-safety filter,
\* onto a king of the other colour.
kingEnPrise(b, color) ==
  \E sq \in Squares :
    LET piece == b[sq[1]][sq[2]] IN
    /\ piece.color = color
    /\ LET moves == pseudoMoves(b, sq[1], sq[2], piece) IN
       \E i \in 1..Len(moves) :
         LET target == b[moves[i].to.row][moves[i].to.col] IN
         target.type = "king" /\ target.color = Opponent(color)

\* A game is in a position in which the side that has just moved has not
\* left its king to be taken.
InitSession == Init /\ ~kingEnPrise(board, currentTurn)

NextSession == PlayMove \/ HandleTimeExpired \/ ResignGame \/ Snapshot

SpecSession == InitSession /\ [][NextSession]_vars

\* The document as it is written and read back along the scripted games.
NextStore ==
  PlayScripted \/ PlayLine \/ HandleTimeExpired \/ ResignGame \/ Snapshot

SpecStore == Init /\ [][NextStore]_vars

-----------------------------------------------------------------------------
(* The queries and the copies they work on                                 *)

\* A query has executed the statements ws on its copy of the board.
Asks(kind, move, ws) ==
  LET q == queryOn(board, ws) IN
  /\ queried' = [kind |-> kind, move |-> move, testBoard |-> q.testBoard,
                 before |-> board]
  /\ board' = q.boardAfter

\* The castling loop of getKingMoves reaches the probe of column c.
castleProbeReached(b, row, col, piece, c) ==
  LET rookCol == IF c > col THEN 7 ELSE 0
      rook == b[row][rookCol]
      earlier == IF c > col THEN (col + 1)..(c - 1) ELSE (c + 1)..(col - 1) IN
  /\ ~Truthy(piece.hasMoved) /\ ~isInCheck(b, piece.color)
  /\ col = kingCol /\ c \in {col - 2, col - 1, col + 1, col + 2}
  /\ rook # Null /\ rook.type = "rook" /\ rook.color = piece.color
  /\ ~Truthy(rook.hasMoved)
  /\ \A k \in earlier \cup {c} : b[row][k] = Null
  /\ c > col => \A k \in earlier : ~kingProbe(b, row, col, piece, row, k)

\* One of the copies getValidMoves(board, row, col) works on: that of
\* wouldBeInCheck for a move of the piece, or that of a probe of getKingMoves.
Query ==
  /\ queried = NoQuery
  /\ \E sq \in Squares :
       LET row == sq[1]
           col == sq[2]
           piece == board[row][col] IN
       /\ piece # Null
       /\ \/ LET moves == pseudoMoves(board, row, col, piece) IN
             \E i \in 1..Len(moves) :
               Asks("wouldBeInCheck", moves[i],
                    wouldBeInCheckStores(moves[i], piece.color))
          \/ /\ piece.type = "king"
             /\ \E i \in 1..8 :
                  LET newRow == row + directions[i][1]
                      newCol == col + directions[i][2] IN
                  /\ OnBoard(newRow, newCol)
                  /\ board[newRow][newCol] = Null
                       \/ board[newRow][newCol].color # piece.color
                  /\ Asks("kingStep",
                          ChessMove(row, col, newRow, newCol,
                                    "undefined", "undefined", "undefined"),
                          kingProbeStores(piece, row, col, newRow, newCol))
          \/ /\ piece.type = "king"
             /\ \E c \in Idx :
                  /\ castleProbeReached(board, row, col, piece, c)
                  /\ Asks("castle",
                          ChessMove(row, col, row, c,
                                    "undefined", "undefined", "undefined"),
                          kingProbeStores(piece, row, col, row, c))
  /\ UNCHANGED <<currentTurn, result, input, inputAfter, shared, ply, script,
                 line, played, noted, notation, probe, status, stored>>

NextQuery == Query

SpecQuery == Init /\ [][NextQuery]_vars

-----------------------------------------------------------------------------
(* moveToAlgebraic called directly                                         *)

MaxNoteFrom == 3

\* Source squares a8, b7, c6, ...; destination squares a1, b2, ..., h8.
NoteFrom == {<<i, i>> : i \in 0..(IF MaxNoteFrom < 8 THEN MaxNoteFrom - 1 ELSE 7)}

NoteTo == {<<7 - i, i>> : i \in Idx}

NoteMoves ==
  {[ChessMove(f[1], f[2], t[1], t[2], "undefined", castle, promo)
      EXCEPT !.isCheck = check, !.isCheckmate = mate] :
     f \in NoteFrom, t \in NoteTo,
     castle \in {"undefined", "kingside", "queenside"},
     promo \in {"undefined", "queen", "rook", "bishop", "knight"},
     check \in {"undefined", "true"}, mate \in {"undefined", "true"}}

\* One call of moveToAlgebraic, with any move.
Render ==
  /\ board = initialBoard
  /\ noted = NoMove
  /\ \E move \in NoteMoves : Notate(move)
  /\ UNCHANGED <<board, currentTurn, result, input, inputAfter, shared, ply,
                 script, line, played, probe, status, stored, queried>>

NextNotation == Render

SpecNotation == Init /\ [][NextNotation]_vars

-----------------------------------------------------------------------------
(* isSquareUnderAttack called directly                                     *)

\* One call of isSquareUnderAttack on the position, with any square and
\* colour; the answers of its four parts are kept beside the verdict.
Probe ==
  /\ probe = NoProbe
  /\ \E sq \in Squares : \E byColor \in Colors :
       probe' = [row |-> sq[1], col |-> sq[2], byColor |-> byColor,
                 pawn |-> pawnAttacks(board, sq[1], sq[2], byColor),
                 knight |-> knightAttacks(board, sq[1], sq[2], byColor),
                 sliding |-> slidingAttacks(board, sq[1], sq[2], byColor),
                 king |-> kingAttacks(board, sq[1], sq[2], byColor),
                 attacked |-> isSquareUnderAttack(board, sq[1], sq[2], byColor)]
  /\ UNCHANGED <<board, currentTurn, result, input, inputAfter, shared, ply,
                 script, line, played, noted, notation, status, stored, queried>>

NextAttack == Probe

SpecAttack == Init /\ [][NextAttack]_vars

-----------------------------------------------------------------------------
(* Properties                                                              *)

\* move is one of the moves getValidMoves returns for its source square on b.
generated(b, move) ==
  LET moves == getValidMoves(b, move.from.row, move.from.col) IN
  \E i \in 1..Len(moves) : moves[i] = move

\* The colour of the piece the last call moved.
moverColor == input[result.move.from.row][result.move.from.col].color

oneKingEach(b) ==
  \A color \in Colors : Cardinality(kingSquares(b, color)) = 1

\* C1: a move returned by getValidMoves, applied by makeMove to a board with
\* one king per colour, never leaves the mover's own king in check.
C1_Legality ==
  (result.valid /\ oneKingEach(input) /\ generated(input, result.move))
    => ~isInCheck(result.newBoard, moverColor)

\* C1 witness: a generated move was applied on a board where the check-safety
\* filter had removed another move of the same colour.
C1_Witness ==
  /\ result.valid /\ oneKingEach(input) /\ generated(input, result.move)
  /\ \E sq \in Squares :
       LET piece == input[sq[1]][sq[2]] IN
       /\ piece.color = moverColor
       /\ Len(getValidMoves(input, sq[1], sq[2]))
            < Len(pseudoMoves(input, sq[1], sq[2], piece))

\* A pawn of byColor stands where pawns of that colour capture onto (row,
\* col) from: one row behind it in their direction of advance.
pawnStandsToCapture(b, row, col, byColor) ==
  LET from == IF byColor = "white" THEN row + 1 ELSE row - 1 IN
  \E dc \in {-1, 1} :
    /\ OnBoard(from, col + dc)
    /\ b[from][col + dc].type = "pawn" /\ b[from][col + dc].color = byColor

\* getPawnMoves of some pawn of byColor produces a capture onto (row, col).
pawnCapturesOnto(b, row, col, byColor) ==
  \E sq \in Squares :
    LET piece == b[sq[1]][sq[2]] IN
    /\ piece.type = "pawn" /\ piece.color = byColor
    /\ LET moves == getPawnMoves(b, sq[1], sq[2], piece) IN
       \E i \in 1..Len(moves) :
         /\ moves[i].isCapture = "true"
         /\ moves[i].to.row = row /\ moves[i].to.col = col

\* C2: isSquareUnderAttack counts a pawn as attacking a square exactly when
\* the pawn stands where it captures onto that square from: a white pawn on
\* (row + 1, col +- 1), a black pawn on (row - 1, col +- 1); so, on a square
\* an enemy piece occupies, exactly when getPawnMoves yields that capture.
C2_PawnAttackDirection ==
  \A sq \in Squares : \A byColor \in Colors :
    /\ pawnAttacks(board, sq[1], sq[2], byColor)
         <=> pawnStandsToCapture(board, sq[1], sq[2], byColor)
    /\ board[sq[1]][sq[2]].color = Opponent(byColor)
         => (pawnAttacks(board, sq[1], sq[2], byColor)
               <=> pawnCapturesOnto(board, sq[1], sq[2], byColor))

\* C3: makeMove leaves the board it is given as it was, square by square,
\* and the board it returns shares no row or piece object with it.
C3_InputNotMutated ==
  ply > 0 => (inputAfter = input /\ shared = {})

\* C3 witness: a castling move was applied and the rook relocated on the
\* returned board.
C3_Witness ==
  /\ ply > 0 /\ result.valid
  /\ result.move.isCastle = "kingside"
  /\ input[7][7].type = "rook" /\ result.newBoard[7][5].type = "rook"
  /\ inputAfter[7][7].type = "rook"

\* Every piece of the colour has an empty getValidMoves list.
noLegalMove(b, color) ==
  \A sq \in Squares :
    b[sq[1]][sq[2]].color = color => getValidMoves(b, sq[1], sq[2]) = <<>>

\* C4: in the scholar's mate line each move played is among the moves
\* getValidMoves returns for its source square and is accepted; the seventh
\* call returns isCheckmate true, inCheck black, isStalemate false, and on
\* the final board every black piece has no valid move.
C4_ScholarsMate ==
  /\ (script >= 1 /\ ply = script)
       => (result.valid /\ generated(input, result.move))
  /\ script = Len(scholarsMate)
       => /\ result.isCheckmate = "true"
          /\ result.inCheck = "black"
          /\ result.isStalemate = "false"
          /\ board = result.newBoard
          /\ noLegalMove(board, "black")

\* C4 witness: the whole line was played and the queen stands on f7.
C4_Witness ==
  /\ script = Len(scholarsMate)
  /\ board[1][5] = ChessPiece("queen", "white", "true")
  /\ result.move.isCapture = "true"

\* The destinations of the moves getValidMoves returns for a square.
destinations(b, row, col) ==
  LET moves == getValidMoves(b, row, col) IN
  {<<moves[i].to.row, moves[i].to.col>> : i \in 1..Len(moves)}

\* In the initial position every pawn has exactly its two advances.
pawnsHaveTwoAdvances ==
  \A col \in Idx :
    /\ Len(getValidMoves(initialBoard, 6, col)) = 2
    /\ destinations(initialBoard, 6, col) = {<<5, col>>, <<4, col>>}
    /\ Len(getValidMoves(initialBoard, 1, col)) = 2
    /\ destinations(initialBoard, 1, col) = {<<2, col>>, <<3, col>>}

\* C5 as stated: in the initial position every pawn has exactly the one- and
\* two-square advance and every other piece has no move.
C5_InitialMovesAsStated ==
  (ply = 0 /\ board = initialBoard) =>
    /\ pawnsHaveTwoAdvances
    /\ \A row \in {0, 7} : \A col \in Idx :
         Len(getValidMoves(board, row, col)) = 0

\* C5 amended: in the initial position every pawn has exactly the one- and
\* two-square advance, every knight has exactly its two jumps to the third
\* rank, and rooks, bishops, queens and kings have no move.
C5_InitialMoves ==
  (ply = 0 /\ board = initialBoard) =>
    /\ pawnsHaveTwoAdvances
    /\ \A row \in {0, 7} : \A col \in Idx :
         LET toRow == IF row = 7 THEN 5 ELSE 2 IN
         IF board[row][col].type = "knight"
         THEN /\ Len(getValidMoves(board, row, col)) = 2
              /\ destinations(board, row, col)
                   = {<<toRow, col - 1>>, <<toRow, col + 1>>}
         ELSE Len(getValidMoves(board, row, col)) = 0

\* C5 witness: the initial position before any move, the b1 knight having
\* moves.
C5_Witness ==
  /\ ply = 0 /\ board = initialBoard
  /\ Len(getValidMoves(board, 7, 1)) > 0

\* The squares holding a piece of the colour.
piecesOf(b, color) == {sq \in Squares : b[sq[1]][sq[2]].color = color}

\* C6: isCheckmate is true exactly when the colour is in check and none of
\* its pieces has a valid move, isStalemate exactly when it is not in check
\* and none has; the flags of a MoveResult are these verdicts for the
\* opponent on the new board.
C6_MateAndStalemate ==
  /\ \A c \in Colors :
       /\ isCheckmate(board, c) <=> (isInCheck(board, c) /\ noLegalMove(board, c))
       /\ isStalemate(board, c) <=> (~isInCheck(board, c) /\ noLegalMove(board, c))
  /\ result.valid =>
       LET c == Opponent(moverColor) IN
       /\ result.isCheckmate = "true"
            <=> (isInCheck(result.newBoard, c) /\ noLegalMove(result.newBoard, c))
       /\ result.isStalemate = "true"
            <=> (~isInCheck(result.newBoard, c) /\ noLegalMove(result.newBoard, c))

\* C6 witness: a move left a lone king that is not in check without a move,
\* and the result says stalemate and not checkmate.
C6_Witness ==
  /\ result.valid
  /\ Cardinality(piecesOf(result.newBoard, Opponent(moverColor))) = 1
  /\ ~isInCheck(result.newBoard, Opponent(moverColor))
  /\ noLegalMove(result.newBoard, Opponent(moverColor))
  /\ result.isStalemate = "true" /\ result.isCheckmate = "false"

\* A piece of byColor attacks (row, col): a pawn standing where it captures
\* onto the square from, a knight a jump away, a bishop, rook or queen along
\* an open line, or the king beside it.
attackedBy(b, row, col, byColor) ==
  \/ pawnStandsToCapture(b, row, col, byColor)
  \/ knightAttacks(b, row, col, byColor)
  \/ slidingAttacks(b, row, col, byColor)
  \/ kingAttacks(b, row, col, byColor)

\* getValidMoves of the king on (row, col) returns a move flagged with side
\* that takes the king to toCol of its row.
castleOffered(b, row, col, side, toCol) ==
  LET moves == getValidMoves(b, row, col) IN
  \E i \in 1..Len(moves) :
    /\ moves[i].isCastle = side
    /\ moves[i].to.row = row /\ moves[i].to.col = toCol

\* The stated conditions of castling for the king on (row, 4).
castleConditions(b, row, rookCol, between, transit) ==
  LET king == b[row][4]
      rook == b[row][rookCol] IN
  /\ ~Truthy(king.hasMoved)
  /\ ~isInCheck(b, king.color)
  /\ rook.type = "rook" /\ rook.color = king.color /\ ~Truthy(rook.hasMoved)
  /\ \A c \in between : b[row][c] = Null
  /\ \A c \in transit : ~attackedBy(b, row, c, Opponent(king.color))

\* C7: a king on column 4 is offered the kingside castle exactly when it and
\* the rook on column 7 have not moved, it is not in check, columns 5 and 6
\* are empty and neither is attacked; the queenside castle exactly when the
\* same holds with the rook on column 0, columns 1 to 3 empty and columns 3
\* and 2 not attacked; no other piece and no king off column 4 is offered a
\* castle.
C7_CastlingOffered ==
  \A sq \in Squares :
    LET row == sq[1]
        col == sq[2] IN
    IF board[row][col].type = "king" /\ col = 4
    THEN /\ castleOffered(board, row, col, "kingside", 6)
              <=> castleConditions(board, row, 7, {5, 6}, {5, 6})
         /\ castleOffered(board, row, col, "queenside", 2)
              <=> castleConditions(board, row, 0, {1, 2, 3}, {3, 2})
         /\ \A m \in {getValidMoves(board, row, col)[i] :
                         i \in 1..Len(getValidMoves(board, row, col))} :
              Truthy(m.isCastle) => m.isCastle \in {"kingside", "queenside"}
    ELSE \A i \in 1..Len(getValidMoves(board, row, col)) :
           ~Truthy(getValidMoves(board, row, col)[i].isCastle)

\* After a castle of the king from (row, 4): king on kingTo, rook of its
\* colour on rookTo, both marked moved, column 4 and the corner empty.
castled(b, row, color, kingTo, rookTo, corner) ==
  /\ b[row][kingTo].type = "king" /\ b[row][kingTo].color = color
  /\ b[row][kingTo].hasMoved = "true"
  /\ b[row][rookTo].type = "rook" /\ b[row][rookTo].color = color
  /\ b[row][rookTo].hasMoved = "true"
  /\ b[row][4] = Null
  /\ b[row][corner] = Null

\* C8: after makeMove applies a castling move that getValidMoves returned,
\* the king stands on column 6 and the rook on column 5 (kingside) or the
\* king on column 2 and the rook on column 3 (queenside) of the king's
\* original row, both with hasMoved true, and the king's original square and
\* the rook's corner are empty.
C8_CastleApplied ==
  (result.valid /\ generated(input, result.move) /\ Truthy(result.move.isCastle))
    => LET row == result.move.from.row IN
       /\ result.move.from.col = 4
       /\ result.move.isCastle = "kingside"
            => castled(result.newBoard, row, moverColor, 6, 5, 7)
       /\ result.move.isCastle = "queenside"
            => castled(result.newBoard, row, moverColor, 2, 3, 0)
       /\ result.move.isCastle \in {"kingside", "queenside"}

\* C8 witness: a kingside castle returned by getValidMoves was applied, the
\* rook having stood on the corner with the king on column 4.
C8_Witness ==
  /\ result.valid /\ generated(input, result.move)
  /\ result.move.isCastle = "kingside"
  /\ input[result.move.from.row][7].type = "rook"
  /\ input[result.move.from.row][4].type = "king"
  /\ board = result.newBoard

\* The non-king pieces of a colour, as the set of their squares.
extras(b, color) == {sq \in piecesOf(b, color) : b[sq[1]][sq[2]].type # "king"}

\* The types of the non-king pieces of a colour.
extraTypes(b, color) == {b[sq[1]][sq[2]].type : sq \in extras(b, color)}

\* King v king, king and one bishop or knight v king, or king and bishop v
\* king and bishop.
insufficient(b) ==
  LET nw == Cardinality(extras(b, "white"))
      nb == Cardinality(extras(b, "black"))
      types == extraTypes(b, "white") \cup extraTypes(b, "black") IN
  \/ nw + nb = 0
  \/ nw + nb = 1 /\ types \subseteq {"bishop", "knight"}
  \/ nw = 1 /\ nb = 1 /\ types = {"bishop"}

\* C9: on a board with one king per colour isDrawByInsufficientMaterial is
\* true exactly for king v king, king and one bishop or knight v lone king,
\* and king and bishop v king and bishop; the isDraw flag of a MoveResult is
\* that verdict on the new board.
C9_InsufficientMaterial ==
  /\ oneKingEach(board)
       => (isDrawByInsufficientMaterial(board) <=> insufficient(board))
  /\ (result.valid /\ oneKingEach(result.newBoard))
       => (result.isDraw = "true" <=> insufficient(result.newBoard))

\* C9 witness: a capture left king and knight v king and the result flags
\* the draw, the board before it not being one.
C9_Witness ==
  /\ result.valid /\ oneKingEach(board) /\ board = result.newBoard
  /\ result.isDraw = "true"
  /\ extraTypes(board, "white") \cup extraTypes(board, "black") = {"knight"}
  /\ ~isDrawByInsufficientMaterial(input)

\* C10: getValidMoves returns the empty list for every square that holds no
\* piece.
C10_EmptySquare ==
  \A sq \in Squares :
    board[sq[1]][sq[2]] = Null => getValidMoves(board, sq[1], sq[2]) = <<>>

\* C10 witness: the square a piece has just left is empty and yields no
\* move, while the square mirrored across the diagonal holds a piece that
\* has moves.
C10_Witness ==
  /\ result.valid /\ board = result.newBoard
  /\ \E sq \in Squares :
       /\ board[sq[1]][sq[2]] = Null
       /\ sq = <<result.move.from.row, result.move.from.col>>
       /\ getValidMoves(board, sq[1], sq[2]) = <<>>
       /\ board[sq[2]][sq[1]] # Null
       /\ getValidMoves(board, sq[2], sq[1]) # <<>>

\* A failed MoveResult: valid false, a non-empty reason, nothing else.
failedByValue(r) ==
  /\ r.valid = FALSE
  /\ r.error \notin {"undefined", ""}
  /\ r.move = NoMove /\ r.newBoard = NoBoard
  /\ r.inCheck = "undefined" /\ r.isCheckmate = "undefined"
  /\ r.isStalemate = "undefined" /\ r.isDraw = "undefined"

\* C11: makeMove on an empty source square returns valid false with a
\* non-empty error reason and no newBoard, move or flags, and leaves the
\* input board unchanged; a call on an occupied source never fails.
C11_EmptySourceFails ==
  /\ \A move \in AnyMoves :
       board[move.from.row][move.from.col] = Null
         => LET call == makeMoveCall(board, move) IN
            failedByValue(call.result) /\ call.inputAfter = board
  /\ ply > 0 =>
       IF result.valid
       THEN input[result.move.from.row][result.move.from.col] # Null
       ELSE failedByValue(result) /\ inputAfter = input /\ board = input

\* C11 witness: a call was made and failed, the board staying as it was.
C11_Witness ==
  /\ ply > 0 /\ ~result.valid
  /\ result.error = "No piece at the source position"
  /\ inputAfter = input /\ board = input

\* The last character of a notation string, "" for the empty string.
lastChar(str) == IF str = <<>> THEN "" ELSE str[Len(str)]

\* C12: the move carried in a valid MoveResult has isCheck set exactly when
\* the move leaves the opponent in check and isCheckmate set exactly when
\* the result says checkmate, so that its notation ends in "+" for a
\* checking move and in "#" for a mating move.
C12_MoveFlagsFilled ==
  (ply > 0 /\ result.valid) =>
    LET checks == result.inCheck = Opponent(moverColor)
        mates == result.isCheckmate = "true" IN
    /\ Truthy(result.move.isCheck) <=> checks
    /\ Truthy(result.move.isCheckmate) <=> mates
    /\ mates => lastChar(moveToAlgebraic(result.move)) = "#"
    /\ (checks /\ ~mates) => lastChar(moveToAlgebraic(result.move)) = "+"

\* The file letter of a column and the rank digit of a row.
fileLetter(col) ==
  CASE col = 0 -> "a" [] col = 1 -> "b" [] col = 2 -> "c" [] col = 3 -> "d"
    [] col = 4 -> "e" [] col = 5 -> "f" [] col = 6 -> "g" [] col = 7 -> "h"

rankDigit(row) ==
  LET rank == 8 - row IN
  CASE rank = 1 -> "1" [] rank = 2 -> "2" [] rank = 3 -> "3" [] rank = 4 -> "4"
    [] rank = 5 -> "5" [] rank = 6 -> "6" [] rank = 7 -> "7" [] rank = 8 -> "8"

\* The upper-cased first letter of a promotion piece's name.
initialOf(promotion) ==
  CASE promotion = "queen" -> "Q" [] promotion = "rook" -> "R"
    [] promotion = "bishop" -> "B" [] promotion = "knight" -> "K"

\* C13: moveToAlgebraic returns "O-O" for a kingside and "O-O-O" for a
\* queenside castle; for any other move the source and the destination
\* square, each as file letter and rank digit 8 - row, then "=" and the
\* upper-cased first letter of the promotion piece if there is one, then "+"
\* if the move carries the check flag, then "#" if it carries the checkmate
\* flag; from (6,4) to (4,4) it gives "e2e4".
C13_Notation ==
  /\ moveToAlgebraic(ChessMove(6, 4, 4, 4, "undefined", "undefined", "undefined"))
       = <<"e", "2", "e", "4">>
  /\ noted # NoMove =>
       IF noted.isCastle = "kingside" THEN notation = <<"O", "-", "O">>
       ELSE IF noted.isCastle = "queenside"
       THEN notation = <<"O", "-", "O", "-", "O">>
       ELSE /\ Len(notation) >= 4
            /\ SubSeq(notation, 1, 4)
                 = <<fileLetter(noted.from.col), rankDigit(noted.from.row),
                     fileLetter(noted.to.col), rankDigit(noted.to.row)>>
            /\ SubSeq(notation, 5, Len(notation))
                 = (IF noted.promotion # "undefined"
                    THEN <<"=", initialOf(noted.promotion)>> ELSE <<>>)
                   \o (IF noted.isCheck = "true" THEN <<"+">> ELSE <<>>)
                   \o (IF noted.isCheckmate = "true" THEN <<"#">> ELSE <<>>)

\* C13 witness: a knight promotion carrying the check flag was rendered,
\* from c6 to h8.
C13_Witness ==
  /\ noted.from = [row |-> 2, col |-> 2] /\ noted.to = [row |-> 0, col |-> 7]
  /\ noted.promotion = "knight" /\ noted.isCheck = "true"
  /\ noted.isCastle = "undefined" /\ noted.isCheckmate = "undefined"
  /\ notation = <<"c", "6", "h", "8", "=", "K", "+">>

\* C14: on a board without a king of colour c, isInCheck(board, c) is false,
\* isCheckmate(board, c) is false, and getValidMoves returns every move the
\* piece generators produce for the pieces of colour c, none filtered out.
C14_AbsentKing ==
  \A c \in Colors :
    kingSquares(board, c) = {} =>
      /\ ~isInCheck(board, c)
      /\ ~isCheckmate(board, c)
      /\ \A sq \in piecesOf(board, c) :
           getValidMoves(board, sq[1], sq[2])
             = pseudoMoves(board, sq[1], sq[2], board[sq[1]][sq[2]])

\* C14 witness: a call has taken the white king off the board and a white
\* piece that the black side attacks still has moves.
C14_Witness ==
  /\ ply > 0 /\ result.valid
  /\ kingSquares(input, "white") # {}
  /\ kingSquares(board, "white") = {}
  /\ \E sq \in piecesOf(board, "white") :
       /\ getValidMoves(board, sq[1], sq[2]) # <<>>
       /\ attackedBy(board, sq[1], sq[2], "black")

PieceTypes == {"pawn", "knight", "bishop", "rook", "queen", "king"}

\* C15: a makeMove call on an occupied source square returns valid true, a
\* new board whose every non-empty square holds a piece with a type and a
\* colour, and defined isCheckmate, isStalemate and isDraw flags, whatever
\* the castle, en-passant and promotion flags of the move.
C15_MakeMoveTotal ==
  (ply > 0 /\ result.valid) =>
    /\ \A sq \in Squares :
         LET piece == result.newBoard[sq[1]][sq[2]] IN
         piece # Null => (piece.type \in PieceTypes /\ piece.color \in Colors)
    /\ result.isCheckmate \in {"true", "false"}
    /\ result.isStalemate \in {"true", "false"}
    /\ result.isDraw \in {"true", "false"}

\* The position was reached from the initial position by generated moves.
fromInitial ==
  \/ ply = 0 /\ board = initialBoard
  \/ ply = 1 /\ input = initialBoard
  \/ script > 0
  \/ played > 0

\* Some move getValidMoves returns for a piece of the colour lands on a king
\* of the other colour.
kingCaptureOffered(b, color) ==
  \E sq \in piecesOf(b, color) :
    LET moves == getValidMoves(b, sq[1], sq[2]) IN
    \E i \in 1..Len(moves) :
      LET target == b[moves[i].to.row][moves[i].to.col] IN
      target.type = "king" /\ target.color = Opponent(color)

\* C16: every position reached from the initial position by alternately
\* applying moves returned by getValidMoves holds exactly one king of each
\* colour, and no move returned in it lands on the enemy king.
C16_KingsNeverCaptured ==
  fromInitial =>
    /\ oneKingEach(board)
    /\ ~kingCaptureOffered(board, currentTurn)

abs(n) == IF n < 0 THEN -n ELSE n

sign(n) == IF n < 0 THEN -1 ELSE IF n > 0 THEN 1 ELSE 0

\* Chessboard distance between two squares.
distance(s, t) ==
  IF abs(s[1] - t[1]) > abs(s[2] - t[2])
  THEN abs(s[1] - t[1]) ELSE abs(s[2] - t[2])

diagonalTo(s, t) == s # t /\ abs(s[1] - t[1]) = abs(s[2] - t[2])

orthogonalTo(s, t) == s # t /\ (s[1] = t[1] \/ s[2] = t[2])

\* Every square strictly between s and t, which lie on one line, is empty.
openLine(b, s, t) ==
  \A k \in 1..(distance(s, t) - 1) :
    b[s[1] + k * sign(t[1] - s[1])][s[2] + k * sign(t[2] - s[2])] = Null

\* A bishop, rook or queen of colour c on s bears on t along an open line.
slidesOnto(b, s, t, c) ==
  LET piece == b[s[1]][s[2]] IN
  /\ piece.color = c
  /\ \/ diagonalTo(s, t) /\ piece.type \in {"bishop", "queen"}
     \/ orthogonalTo(s, t) /\ piece.type \in {"rook", "queen"}
  /\ openLine(b, s, t)

\* A knight of colour c on s is an L-offset away from t.
jumpsOnto(b, s, t, c) ==
  /\ b[s[1]][s[2]].type = "knight" /\ b[s[1]][s[2]].color = c
  /\ {abs(s[1] - t[1]), abs(s[2] - t[2])} = {1, 2}

\* A king of colour c on s is adjacent to t.
standsBeside(b, s, t, c) ==
  /\ b[s[1]][s[2]].type = "king" /\ b[s[1]][s[2]].color = c
  /\ distance(s, t) = 1

\* C17: isSquareUnderAttack finds an attack by a bishop, rook or queen of the
\* colour exactly when such a piece lies on a diagonal (bishop, queen) or
\* orthogonal (rook, queen) line through the target with every square
\* strictly between empty, by a knight exactly when one of the colour is an
\* L-offset away, by a king exactly when one is adjacent; the piece on the
\* target itself makes no difference.
C17_AttackGeometry ==
  probe # NoProbe =>
    LET t == <<probe.row, probe.col>>
        c == probe.byColor IN
    /\ probe.sliding <=> \E s \in Squares : slidesOnto(board, s, t, c)
    /\ probe.knight <=> \E s \in Squares : jumpsOnto(board, s, t, c)
    /\ probe.king <=> \E s \in Squares : standsBeside(board, s, t, c)
    /\ probe.attacked
         <=> (probe.pawn \/ probe.sliding \/ probe.knight \/ probe.king)
    /\ probe.attacked
         = isSquareUnderAttack(Put(board, t[1], t[2], Null), t[1], t[2], c)

\* C17 witness: a bishop or queen bears on the probed square from at least
\* three squares away along a diagonal, no knight or king attacks it, and a
\* piece stands on the probed square.
C17_Witness ==
  /\ probe # NoProbe
  /\ probe.sliding /\ ~probe.knight /\ ~probe.king
  /\ board[probe.row][probe.col] # Null
  /\ \E s \in Squares :
       /\ slidesOnto(board, s, <<probe.row, probe.col>>, probe.byColor)
       /\ diagonalTo(s, <<probe.row, probe.col>>)
       /\ distance(s, <<probe.row, probe.col>>) >= 3

cornerOf(side) == IF side = "kingside" THEN 7 ELSE 0

Sides == {"kingside", "queenside"}

\* The rows on which a king of the colour that has not moved stands on
\* column 4 with a rook of its colour that has not moved on the side's corner.
rightRows(b, c, side) ==
  {row \in Idx :
     /\ b[row][4].type = "king" /\ b[row][4].color = c
     /\ ~Truthy(b[row][4].hasMoved)
     /\ b[row][cornerOf(side)].type = "rook" /\ b[row][cornerOf(side)].color = c
     /\ ~Truthy(b[row][cornerOf(side)].hasMoved)}

\* The isCastle flags of the moves getValidMoves returns for the pieces of
\* the colour; for a piece other than a king the flags of all the moves
\* generated for it, of which getValidMoves returns a part.
castlesOffered(b, c) ==
  UNION {LET piece == b[sq[1]][sq[2]]
             moves == IF piece.type = "king"
                      THEN getValidMoves(b, sq[1], sq[2])
                      ELSE pseudoMoves(b, sq[1], sq[2], piece) IN
         {moves[i].isCastle : i \in 1..Len(moves)} : sq \in piecesOf(b, c)}
    \ {"undefined"}

\* getValidMoves returns a move flagged with the side for a piece of the
\* colour.
offersCastle(b, c, side) == side \in castlesOffered(b, c)

\* What one applied move does to the castling rights.
rightsStep ==
  \A c \in Colors :
    LET before == castlesOffered(board, c)
        after == castlesOffered(board', c) IN
    \A side \in Sides :
    /\ ply = 0 => (before \subseteq Sides /\ after \subseteq Sides)
    /\ (ply = 0 /\ side \in before) => rightRows(board, c, side) # {}
    /\ side \in after => rightRows(board', c, side) # {}
    /\ rightRows(board', c, side) \subseteq rightRows(board, c, side)
    /\ result'.valid =>
         LET from == result'.move.from
             to == result'.move.to IN
         \A row \in rightRows(board, c, side) :
           (\/ from = [row |-> row, col |-> 4]
            \/ from = [row |-> row, col |-> cornerOf(side)]
            \/ to = [row |-> row, col |-> cornerOf(side)]
            \/ to = [row |-> row, col |-> 4])
             => row \notin rightRows(board', c, side)

\* C18: castling rights are lost for good: a castle is only ever offered to
\* a king and rook that have not moved; a move of the king takes both
\* rights of its colour away, a move or the capture of a rook that of its
\* side; and no move gives a right back, so no later position offers the
\* castle again, even with king and rook back on their squares.
C18_CastlingRightsLost == [][rightsStep]_vars

\* C18 witness: the white king has walked to e2 and back; it stands on e1
\* beside the rook on h1 that has not moved, f1 and g1 are empty and not
\* attacked, and no castle is offered.
C18_Witness ==
  /\ line = 2 /\ played = Len(kingWalk)
  /\ board[7][4] = ChessPiece("king", "white", "true")
  /\ board[7][7].type = "rook" /\ ~Truthy(board[7][7].hasMoved)
  /\ board[7][5] = Null /\ board[7][6] = Null
  /\ ~isInCheck(board, "white")
  /\ ~attackedBy(board, 7, 5, "black") /\ ~attackedBy(board, 7, 6, "black")
  /\ ~offersCastle(board, "white", "kingside")
  /\ ~offersCastle(board, "white", "queenside")

\* The squares holding a pawn.
pawnSquares(b) == {sq \in Squares : b[sq[1]][sq[2]].type = "pawn"}

\* The moves a pawn on (row, col) has by the rules stated, each as
\* <<row, column, whether it is a capture>>.
pawnRule(b, row, col) ==
  LET c == b[row][col].color
      d == IF c = "white" THEN -1 ELSE 1
      start == IF c = "white" THEN 6 ELSE 1
      free(r, k) == OnBoard(r, k) /\ b[r][k] = Null
      enemy(r, k) == OnBoard(r, k) /\ b[r][k] # Null /\ b[r][k].color # c IN
  (IF free(row + d, col) THEN {<<row + d, col, FALSE>>} ELSE {})
  \cup (IF row = start /\ free(row + d, col) /\ free(row + 2 * d, col)
        THEN {<<row + 2 * d, col, FALSE>>} ELSE {})
  \cup {<<row + d, col + dc, TRUE>> :
          dc \in {k \in {-1, 1} : enemy(row + d, col + k)}}

\* The moves getPawnMoves produces, in the same form.
pawnGenerated(b, row, col) ==
  LET moves == getPawnMoves(b, row, col, b[row][col]) IN
  {<<moves[i].to.row, moves[i].to.col, Truthy(moves[i].isCapture)>> :
     i \in 1..Len(moves)}

\* C19: getPawnMoves produces exactly the one-square advance onto an empty
\* square, the two-square advance from the starting row over two empty
\* squares, and the two diagonal captures onto pieces of the other colour,
\* flagged isCapture, each once and nothing else: no advance onto a piece, no
\* diagonal step onto an empty square, no step backward or sideways.
C19_PawnMoves ==
  \A sq \in pawnSquares(board) :
    LET moves == getPawnMoves(board, sq[1], sq[2], board[sq[1]][sq[2]]) IN
    /\ pawnGenerated(board, sq[1], sq[2]) = pawnRule(board, sq[1], sq[2])
    /\ Len(moves) = Cardinality(pawnRule(board, sq[1], sq[2]))
    /\ \A i \in 1..Len(moves) :
         /\ moves[i].from = [row |-> sq[1], col |-> sq[2]]
         /\ ~Truthy(moves[i].isCastle)

\* C19 witness: after a move, one pawn has both a capture and an advance, and
\* a pawn on its starting row stands behind a piece with the square beyond
\* it empty and has no advance.
C19_Witness ==
  /\ result.valid /\ board = result.newBoard
  /\ \E sq \in pawnSquares(board) :
       /\ \E m \in pawnGenerated(board, sq[1], sq[2]) : m[3]
       /\ \E m \in pawnGenerated(board, sq[1], sq[2]) : ~m[3]
  /\ \E sq \in pawnSquares(board) :
       LET d == IF board[sq[1]][sq[2]].color = "white" THEN -1 ELSE 1 IN
       /\ sq[1] = (IF d = -1 THEN 6 ELSE 1)
       /\ board[sq[1] + d][sq[2]] # Null
       /\ board[sq[1] + 2 * d][sq[2]] = Null
       /\ \A m \in pawnGenerated(board, sq[1], sq[2]) : m[3]

\* The row a pawn of the colour promotes on.
lastRank(color) == IF color = "white" THEN 0 ELSE 7

noPawnOnLastRank(b) ==
  \A sq \in pawnSquares(b) : sq[1] # lastRank(b[sq[1]][sq[2]].color)

\* C20: a pawn move returned by getValidMoves carries promotion queen
\* exactly when it lands on the last rank of its colour, advance or capture,
\* and no other promotion; makeMove then puts a queen of the mover's colour
\* with hasMoved true on the destination; so no position reached from the
\* initial position by generated moves has a pawn on its last rank.
C20_Promotion ==
  /\ \A sq \in pawnSquares(board) :
       LET moves == getValidMoves(board, sq[1], sq[2]) IN
       \A i \in 1..Len(moves) :
         moves[i].promotion
           = (IF moves[i].to.row = lastRank(board[sq[1]][sq[2]].color)
              THEN "queen" ELSE "undefined")
  /\ (result.valid /\ generated(input, result.move)) =>
       LET from == result.move.from
           to == result.move.to IN
       /\ (input[from.row][from.col].type = "pawn" /\ to.row = lastRank(moverColor))
            => result.newBoard[to.row][to.col] = ChessPiece("queen", moverColor, "true")
       /\ noPawnOnLastRank(input) => noPawnOnLastRank(result.newBoard)
  /\ fromInitial => noPawnOnLastRank(board)

\* C20 witness: a pawn has captured onto its last rank and a queen of its
\* colour stands there.
C20_Witness ==
  /\ result.valid /\ generated(input, result.move)
  /\ input[result.move.from.row][result.move.from.col].type = "pawn"
  /\ result.move.isCapture = "true" /\ result.move.promotion = "queen"
  /\ result.move.to.row = lastRank(moverColor)
  /\ board[result.move.to.row][result.move.to.col]
       = ChessPiece("queen", moverColor, "true")

-----------------------------------------------------------------------------
(* Promotion as makeMove applies it                                        *)

\* The last call moved a pawn onto the last rank of its colour.
pawnReachedLastRank ==
  /\ result.valid
  /\ input[result.move.from.row][result.move.from.col].type = "pawn"
  /\ result.move.to.row = lastRank(moverColor)

\* C21: makeMove leaves a queen of the mover's colour on the destination of
\* a pawn move to the last rank that carries no promotion, and a piece of
\* exactly the promotion type and the mover's colour when the move carries
\* a promotion.
C21_PromotionDefault ==
  result.valid =>
    LET move == result.move
        landed == result.newBoard[move.to.row][move.to.col] IN
    /\ (pawnReachedLastRank /\ ~Truthy(move.promotion))
         => (landed.type = "queen" /\ landed.color = moverColor)
    /\ Truthy(move.promotion)
         => (landed.type = move.promotion /\ landed.color = moverColor)

-----------------------------------------------------------------------------
(* En passant                                                              *)

occupied(b) == {sq \in Squares : b[sq[1]][sq[2]] # Null}

\* Every move getValidMoves returns on b leaves isEnPassant unset, and every
\* pawn move that changes column lands on an occupied square.
noEnPassantOffered(b) ==
  \A sq \in occupied(b) :
    LET moves == getValidMoves(b, sq[1], sq[2]) IN
    \A i \in 1..Len(moves) :
      /\ ~Truthy(moves[i].isEnPassant)
      /\ (b[sq[1]][sq[2]].type = "pawn" /\ moves[i].to.col # sq[2])
           => b[moves[i].to.row][moves[i].to.col] # Null

\* The last move removed no pawn but one standing on its destination: every
\* other pawn of the board before stands where it stood.
pawnsOnlyCaptured ==
  \A sq \in pawnSquares(input) :
    (sq # <<result.move.from.row, result.move.from.col>>
       /\ sq # <<result.move.to.row, result.move.to.col>>)
      => board[sq[1]][sq[2]] = input[sq[1]][sq[2]]

\* C22: getValidMoves never returns an en passant move: no move has
\* isEnPassant set and no pawn move goes diagonally to an empty square; so in
\* a game played with generated moves a pawn leaves the board only when a
\* piece lands on its square.
C22_NoEnPassant ==
  /\ noEnPassantOffered(board)
  /\ (ply > 0 /\ result.valid) => pawnsOnlyCaptured

\* A black pawn has just advanced two squares to d5 beside the white pawn on
\* e5, which is offered its advance and nothing on d6.
C22_Witness ==
  /\ line = 3 /\ played = 4
  /\ result.move.from = [row |-> 1, col |-> 3]
  /\ result.move.to = [row |-> 3, col |-> 3]
  /\ board[3][3] = ChessPiece("pawn", "black", "true")
  /\ board[3][4] = ChessPiece("pawn", "white", "true")
  /\ board[2][3] = Null
  /\ destinations(board, 3, 4) = {<<2, 4>>}

-----------------------------------------------------------------------------
(* King steps                                                              *)

kingOffsets == {d \in (-1..1) \X (-1..1) : d # <<0, 0>>}

\* The board with the piece of (row, col) moved to (toRow, toCol).
moved(b, row, col, toRow, toCol) ==
  Put(Put(b, row, col, Null), toRow, toCol, b[row][col])

\* getValidMoves of the king on (row, col) returns a move without castle
\* flag to (toRow, toCol).
stepOffered(b, row, col, toRow, toCol) ==
  LET moves == getValidMoves(b, row, col) IN
  \E i \in 1..Len(moves) :
    /\ moves[i].to = [row |-> toRow, col |-> toCol]
    /\ ~Truthy(moves[i].isCastle)

\* The king on (row, col) may step to (toRow, toCol) by the rule stated.
stepAllowed(b, row, col, toRow, toCol) ==
  /\ OnBoard(toRow, toCol)
  /\ b[toRow][toCol] = Null \/ b[toRow][toCol].color # b[row][col].color
  /\ ~attackedBy(moved(b, row, col, toRow, toCol), toRow, toCol,
                 Opponent(b[row][col].color))

kingStepsAsStated(b) ==
  \A color \in Colors : \A sq \in kingSquares(b, color) : \A d \in kingOffsets :
    stepOffered(b, sq[1], sq[2], sq[1] + d[1], sq[2] + d[2])
      <=> stepAllowed(b, sq[1], sq[2], sq[1] + d[1], sq[2] + d[2])

\* No king is offered a square beside the other king.
kingsKeptApart(b) ==
  \A color \in Colors : \A sq \in kingSquares(b, color) : \A d \in kingOffsets :
    stepOffered(b, sq[1], sq[2], sq[1] + d[1], sq[2] + d[2])
      => \A other \in kingSquares(b, Opponent(color)) :
           distance(<<sq[1] + d[1], sq[2] + d[2]>>, other) > 1

\* C23: getValidMoves returns a non-castling king move to an adjacent square
\* exactly when the square is on the board, is empty or holds an enemy
\* piece, and is not attacked by the opponent once the king stands on it;
\* in particular never a square beside the enemy king.
C23_KingSteps ==
  oneKingEach(board) => (kingStepsAsStated(board) /\ kingsKeptApart(board))

-----------------------------------------------------------------------------
(* Queries leave the board alone                                           *)

\* The copy a query worked on holds what the hypothetical move leaves.
copyHoldsMove ==
  LET m == queried.move
      b == queried.before
      piece == b[m.from.row][m.from.col] IN
  \/ queried.kind \in {"kingStep", "castle"}
       /\ queried.testBoard
            = Put(Put(b, m.to.row, m.to.col, piece), m.from.row, m.from.col, Null)
  \/ queried.kind = "wouldBeInCheck"
       /\ wouldBeInCheck(b, m, piece.color)
            = isInCheck(queried.testBoard, piece.color)

\* C24: the queries leave every square of the caller's board as it was:
\* wouldBeInCheck and the king-step and castling probes of getValidMoves,
\* through which isCheckmate and isStalemate work as well, apply their
\* hypothetical moves to copies only.
C24_QueriesPure ==
  queried # NoQuery => (board = queried.before /\ copyHoldsMove)

\* wouldBeInCheck has moved a piece on its copy, which now differs from the
\* caller's board.
C24_Witness ==
  /\ queried.kind = "wouldBeInCheck"
  /\ queried.testBoard # board
  /\ queried.testBoard[queried.move.from.row][queried.move.from.col] = Null
  /\ board[queried.move.from.row][queried.move.from.col] # Null

-----------------------------------------------------------------------------
(* The squares makeMove touches                                            *)

\* The squares a move involves: its ends, the rook's corner and landing
\* square when it carries a castle flag, the square beside its origin in
\* the destination's column when it carries the en passant flag.
involved(move) ==
  {<<move.from.row, move.from.col>>, <<move.to.row, move.to.col>>}
  \cup (IF Truthy(move.isCastle)
        THEN {<<move.from.row, IF move.isCastle = "kingside" THEN 7 ELSE 0>>,
              <<move.from.row, IF move.isCastle = "kingside"
                               THEN move.to.col - 1 ELSE move.to.col + 1>>}
        ELSE {})
  \cup (IF Truthy(move.isEnPassant) THEN {<<move.from.row, move.to.col>>} ELSE {})

\* Squares off the move keep their piece.
othersKept ==
  \A sq \in Squares \ involved(result.move) :
    result.newBoard[sq[1]][sq[2]] = input[sq[1]][sq[2]]

\* The origin is empty and the destination holds the moved or promoted
\* piece, marked as moved.
endsAsMoved ==
  LET move == result.move
      piece == input[move.from.row][move.from.col] IN
  /\ result.newBoard[move.from.row][move.from.col] = Null
  /\ result.newBoard[move.to.row][move.to.col]
       = IF Truthy(move.promotion)
         THEN ChessPiece(move.promotion, piece.color, "true")
         ELSE [piece EXCEPT !.hasMoved = "true"]

piecesLost == Cardinality(occupied(input)) - Cardinality(occupied(result.newBoard))

\* C25 as stated: a valid makeMove changes only the squares the move
\* involves, leaves the origin empty and the moved or promoted piece on the
\* destination, and removes at most one piece.
C25_TouchedSquaresAsStated ==
  result.valid => (othersKept /\ endsAsMoved /\ piecesLost <= 1)

\* The move of the last call carries no castle and no en passant flag and
\* has two different ends, or is one getValidMoves returns.
plainOrGenerated ==
  \/ /\ ~Truthy(result.move.isCastle) /\ ~Truthy(result.move.isEnPassant)
     /\ result.move.from # result.move.to
  \/ generated(input, result.move)

\* C25: a valid makeMove changes only the squares the move involves and
\* removes at most three pieces; for a move with two different ends and no
\* castle or en passant flag, and for every move getValidMoves returns, it
\* leaves the origin empty and the moved or promoted piece on the
\* destination, and removes at most one piece.
C25_TouchedSquares ==
  result.valid =>
    /\ othersKept
    /\ piecesLost <= 3
    /\ plainOrGenerated => (endsAsMoved /\ piecesLost <= 1)

\* A capture flagged as en passant has removed two pieces, the one on the
\* destination and the one beside the origin, and nothing else changed.
C25_Witness ==
  /\ result.valid
  /\ Truthy(result.move.isEnPassant)
  /\ piecesLost = 2
  /\ othersKept

-----------------------------------------------------------------------------
(* Shape of the generated moves                                            *)

\* The move leaves (row, col) of b for another square of the board that is
\* empty or holds a piece of the other colour.
wellAimed(b, row, col, move) ==
  /\ move.from = [row |-> row, col |-> col]
  /\ OnBoard(move.to.row, move.to.col)
  /\ move.to # move.from
  /\ b[move.to.row][move.to.col] = Null
       \/ b[move.to.row][move.to.col].color = Opponent(b[row][col].color)

\* C26: every move getValidMoves returns starts on the queried square and
\* ends on another square of the board that is empty or holds a piece of
\* the opposite colour.
C26_MovesWellAimed ==
  \A sq \in occupied(board) :
    LET moves == getValidMoves(board, sq[1], sq[2]) IN
    \A i \in 1..Len(moves) : wellAimed(board, sq[1], sq[2], moves[i])

\* A generated move has just captured an enemy piece, and on the board it
\* was generated from a rook, bishop or queen of the mover stood next to a
\* piece of its own colour.
C26_Witness ==
  /\ ply > 0 /\ result.valid
  /\ input[result.move.to.row][result.move.to.col].color = Opponent(moverColor)
  /\ \E sq \in piecesOf(input, moverColor) : \E d \in kingOffsets :
       /\ input[sq[1]][sq[2]].type \in {"rook", "bishop", "queen"}
       /\ OnBoard(sq[1] + d[1], sq[2] + d[2])
       /\ input[sq[1] + d[1]][sq[2] + d[2]].color = moverColor

-----------------------------------------------------------------------------
(* Outcome flags of a MoveResult                                           *)

outcomeFlags(res) ==
  {f \in {"isCheckmate", "isStalemate", "isDraw"} : res[f] = "true"}

\* C27: at most one of isCheckmate, isStalemate and isDraw is true in the
\* result of a valid makeMove; isCheckmate comes with inCheck naming the
\* opponent and isStalemate with inCheck undefined; in particular no move is
\* reported as checkmate and as a draw by insufficient material.
C27_FlagsExclusive ==
  (ply > 0 /\ result.valid) =>
    /\ Cardinality(outcomeFlags(result)) <= 1
    /\ result.isCheckmate = "true" => result.inCheck = Opponent(moverColor)
    /\ result.isStalemate = "true" => result.inCheck = "undefined"

-----------------------------------------------------------------------------
(* The session: whose turn it is                                           *)

\* C28: while a game is active the side that is not to move is not in
\* check: its king is neither attacked, as isInCheck sees it, nor can it be
\* captured by a move of the side to move; this under every interleaving of
\* moves and turn-timer expiries.
C28_IdleSideSafe ==
  status = "active" =>
    /\ ~isInCheck(board, Opponent(currentTurn))
    /\ ~kingEnPrise(board, currentTurn)

-----------------------------------------------------------------------------
(* The session: the end of the game                                        *)

ended == status \in {"checkmate", "stalemate", "draw", "resigned"}

\* Which piece stands where, hasMoved flags aside.
placement(b) ==
  [sq \in Squares |-> <<b[sq[1]][sq[2]].type, b[sq[1]][sq[2]].color>>]

\* A step taken once the game has ended applies no move, leaves every piece
\* and the turn where they are, and does not make the game active again.
terminalStep ==
  ended =>
    /\ ply' = ply
    /\ placement(board') = placement(board)
    /\ currentTurn' = currentTurn
    /\ status' # "active"

\* C29: once the status is checkmate, stalemate, draw or resigned, no click
\* or move changes the board or the turn, and the status never returns to
\* active.
C29_EndIsTerminal == [][terminalStep]_vars

-----------------------------------------------------------------------------
(* The stored board read back                                              *)

\* The board rebuilt from the flattening of b holds on every square what b
\* holds: nothing, or a piece of the same type and colour whose hasMoved
\* flag is the one of b, an unset flag read back as false.
sameSquares(b, rebuilt) ==
  \A sq \in Squares :
    LET piece == b[sq[1]][sq[2]]
        back == rebuilt[sq[1]][sq[2]] IN
    IF piece = Null THEN back = Null
    ELSE /\ back # Null
         /\ back.type = piece.type /\ back.color = piece.color
         /\ back.hasMoved = (IF piece.hasMoved = "true" THEN "true" ELSE "false")

sameMoves(b, rebuilt) ==
  \A sq \in occupied(b) :
    getValidMoves(rebuilt, sq[1], sq[2]) = getValidMoves(b, sq[1], sq[2])

\* C30: the document holds the flattening of the game's board, and
\* rebuilding a board from its flattening with deserializeBoard gives the
\* same piece type and colour on every square, null on every empty square
\* and the same hasMoved value, an unset flag reading back as false, so
\* that getValidMoves returns the same moves on the rebuilt board.
C30_RoundTrip ==
  \A flat \in {serializeBoard(board)} : \A rebuilt \in {deserializeBoard(flat)} :
    /\ stored.board = flat
    /\ sameSquares(board, rebuilt)
    /\ sameMoves(board, rebuilt)

\* A snapshot has replaced the initial board, whose pieces carry no
\* hasMoved flag, by the board rebuilt from the document, where every flag
\* is false; the knight on b1 has its two moves as before.
C30_Witness ==
  /\ ply = 0
  /\ board = deserializeBoard(stored.board)
  /\ board # initialBoard
  /\ placement(board) = placement(initialBoard)
  /\ \A sq \in occupied(board) : board[sq[1]][sq[2]].hasMoved = "false"
  /\ destinations(board, 7, 1) = {<<5, 0>>, <<5, 2>>}

====
